---- MODULE Spec2Model ----
(***************************************************************************)
(* effect-bun-testing: Effect test helpers on Bun's test runner.           *)
(*                                                                         *)
(* Six state machines share the module:                                   *)
(*   SpecBridge     one registered test run through makeTester/runPromise  *)
(*   SpecFlaky      one flakyTest(self, timeout) run by a test             *)
(*   SpecLayer      one layer(...) group driven by the host's hooks        *)
(*   SpecLayerScopes  the same, its test bodies registering finalizers    *)
(*   SpecNested     a registrar nested in another through makeIt().layer   *)
(*   SpecModifiers  one registration through a member of a tester          *)
(*   SpecAsserts    one call of the assertion helpers throws / throwsAsync *)
(* The variables of the machines that a specification does not run stay at *)
(* their idle values.                                                      *)
(***************************************************************************)
EXTENDS Integers, Sequences, FiniteSets, TLC

\* --------------------------------------------------------------------------
\* Bounds of the model
\* --------------------------------------------------------------------------
MaxCause == 2        \* leaves of a Cause
MaxFin == 2          \* finalizers one test body registers

\* --------------------------------------------------------------------------
\* Exit, Cause and their rendering
\* --------------------------------------------------------------------------
\* A Cause is read in the order Cause.prettyErrors walks it: a sequence of
\* leaves Fail(e) / Die(d) / Interrupt.
Fail(e) == [kind |-> "Fail", err |-> e]
Die(d) == [kind |-> "Die", err |-> d]
Interrupt == [kind |-> "Interrupt", err |-> "fiber"]

Leaves == {Fail("e1"), Fail("e2"), Die("d1"), Interrupt}

RECURSIVE SeqsUpTo(_, _)
SeqsUpTo(S, n) ==
    IF n = 0 THEN {<<>>}
    ELSE LET shorter == SeqsUpTo(S, n - 1)
         IN  shorter \cup {Append(s, x) : s \in {t \in shorter : Len(t) = n - 1}, x \in S}

Causes == SeqsUpTo(Leaves, MaxCause)

ExitSuccess == [tag |-> "Success", cause |-> <<>>]
ExitFailure(c) == [tag |-> "Failure", cause |-> c]
Exits == {ExitSuccess} \cup {ExitFailure(c) : c \in Causes}

isSuccess(exit) == exit.tag = "Success"

\* The interrupted-only branch never taken.
isInterruptedOnly_never(cause) == FALSE

\* Cause.isInterruptedOnly: no leaf is a Fail or a Die (the empty cause included).
isInterruptedOnly(cause) == \A k \in 1..Len(cause) : cause[k].kind = "Interrupt"

\* new PrettyError(err): a rendering of the error, not the error itself.
PrettyError(err) == <<"PrettyError", err>>

\* Cause.prettyErrors: the Fail and Die leaves rendered, in order; interrupts drop out.
RECURSIVE prettyErrors(_)
prettyErrors(cause) ==
    IF cause = <<>> THEN <<>>
    ELSE IF Head(cause).kind = "Interrupt" THEN prettyErrors(Tail(cause))
    ELSE <<PrettyError(Head(cause).err)>> \o prettyErrors(Tail(cause))

InterruptedError == <<"Error", "All fibers interrupted without errors.">>
NoValue == <<"none", "none">>
Undefined == <<"undefined", "undefined">>

\* throw errors[errors.length - 1] instead of errors[0].
thrown_last(errs) == IF errs = <<>> THEN Undefined ELSE errs[Len(errs)]

\* throw errors[0]!  (an empty array yields undefined)
thrown(errs) == IF errs = <<>> THEN Undefined ELSE errs[1]

Pending == [state |-> "pending", value |-> NoValue]
Resolved == [state |-> "resolved", value |-> NoValue]
Rejected(v) == [state |-> "rejected", value |-> v]

\* --------------------------------------------------------------------------
\* Testers and their environment transforms (mapEffect)
\* --------------------------------------------------------------------------
Testers == {"effect", "scoped", "live", "scopedLive",
            "layer.effect", "layer.scoped",
            "v4.effect", "v4.live", "v4.layer.effect"}

\* The testers whose type lets the body use a Scope (Tester<Scope.Scope>).
BodyHasScope(t) == t \in {"scoped", "scopedLive", "layer.scoped",
                          "v4.effect", "v4.live", "v4.layer.effect"}

\* mapEffect with Effect.scoped left out of every transform.
mapEffect_unscoped(t) ==
    [scoped |-> FALSE,
     testEnv |-> t \in {"effect", "scoped", "v4.effect"},
     runtime |-> t \in {"layer.effect", "layer.scoped", "v4.layer.effect"}]

\* The layer testers providing the graph per test instead of the shared runtime.
mapEffect_perTest(t) ==
    [scoped |-> t \in {"scoped", "scopedLive", "layer.scoped",
                       "v4.effect", "v4.live", "v4.layer.effect"},
     testEnv |-> t \in {"effect", "scoped", "v4.effect"},
     runtime |-> FALSE]

\* The transform each tester hands to makeTester:
\*   scoped   the body runs under Effect.scoped
\*   testEnv  TestEnv is provided
\*   runtime  the body runs behind flatMap(runtimeEffect, ...)
mapEffect(t) ==
    [scoped |-> t \in {"scoped", "scopedLive", "layer.scoped",
                       "v4.effect", "v4.live", "v4.layer.effect"},
     testEnv |-> t \in {"effect", "scoped", "v4.effect"},
     runtime |-> t \in {"layer.effect", "layer.scoped", "v4.layer.effect"}]

\* Scope.close: finalizers run most recently registered first.
RECURSIVE Reverse(_)
Reverse(s) == IF s = <<>> THEN <<>> ELSE Append(Reverse(Tail(s)), Head(s))

VARIABLES
    \* ---- SpecBridge: one test through makeTester.run and runPromise ----
    tester,      \* the tester the test was registered through
    pc,          \* position of the run
    exit,        \* the Exit of the mapped effect, once it has one
    finalizers,  \* finalizers registered in the test's own scope, in order
    finLog,      \* finalizers that have run, in order
    errors,      \* runPromise: Cause.prettyErrors(exit.cause)
    i,           \* runPromise: loop index
    logged,      \* Effect.logError lines, in order
    promise,     \* the promise handed to the host runner
    hostTest     \* the host's view of the test: "registered" | "awaiting" |
                 \* "timedout" | "finished"

VARIABLES
    \* ---- SpecFlaky: flakyTest(self, timeout) as the body of the test ----
    fpc,         \* "idle" | "ready" | "running" | "done"
    timeout,     \* flakyTest's timeout, in clock ticks
    succeedAt,   \* self succeeds on this execution and fails on the earlier ones
    now,         \* Clock.currentTimeMillis
    attempts,    \* executions of self started so far
    schedule,    \* state of the retry schedule: [recurs, elapsed]
    firstStart,  \* clock at the start of the first execution (None before it)
    lastAttempt, \* how the latest execution ended
    defects,     \* executions of self that ended with a defect
    flakyExit    \* the Exit of flakyTest(self, timeout)

VARIABLES
    \* ---- SpecLayer: one layer(layer_, options)(...) group ----
    form,        \* "named": (name, f) under describe; "unnamed": (f)
    excludeTestServices,   \* options?.excludeTestServices ?? false
    cache,       \* Effect.cached around the construction: [status, result]
    building,    \* leaves the running construction has still to build
    buildRuns,   \* times the construction effect has been started
    memoMap,     \* leaf -> instance held by the MemoMap (0: no entry)
    constructed, \* leaf -> times the leaf service was constructed
    scope,       \* the registrar's Scope: [closed, finalizers]
    released,    \* leaves whose release has run, in order
    counts,      \* Counter instance -> its count
    hostPc,      \* the host runner's position in the group
    cpc,         \* consumer -> position; consumer 0 is the beforeAll hook
    got,         \* consumer -> what forcing the cached construction gave it
    thost,       \* test -> how the host stands to the test's promise
    tread,       \* test -> the count its body read when it started
    twrote,      \* test -> the count its body wrote (0: no increment)
    tbefore,     \* test -> the tests that had finished when its body started
    tfins        \* test -> finalizers registered in the test's own scope, not run yet

testScopeVars == <<tfins>>

bridgeVars == <<tester, pc, exit, finalizers, finLog, errors, i, logged, promise,
                hostTest>>
flakyVars == <<fpc, timeout, succeedAt, now, attempts, schedule, firstStart,
               lastAttempt, defects, flakyExit>>

VARIABLES
    \* ---- SpecNested: a registrar and one registrar nested in it ----
    regForm,     \* registrar -> "named" | "unnamed"
    nestedOptions, \* the options given to makeIt().layer(nestedLayer, options)
    afterOrder,  \* how the host orders the afterAll hooks of one group
    plan,        \* the host steps still to run, in the host's order
    stepPc,      \* the running host step: "idle" | "waiting" | "got"
    regCache,    \* registrar -> its Effect.cached construction
    regBuilding, \* registrar -> leaves its running construction has to build
    memoMaps,    \* MemoMap -> leaf -> [inst, obs] (inst 0: no entry)
    built,       \* leaves constructed, in order of construction
    regScope,    \* registrar -> its Scope: [closed, finalizers]
    closedOrder, \* registrars in the order their Scopes were closed
    freed,       \* leaves whose resource was released, in order
    regGot,      \* registrar -> what its test got from the construction
    ran          \* registrar -> the body of its test has run

VARIABLES
    \* ---- SpecModifiers: one registration through a member of a tester ----
    modifier,    \* the member used: "f", "skipIf", "runIf", "each", "prop", ...
    condition,   \* the condition given to skipIf / if / runIf (a JS value)
    cases,       \* the cases given to each
    eachTable,   \* what the host's each does with a case that is an array
    regPc,       \* "unregistered" | "registered"
    registered,  \* the host registrations made, in order
    cur,         \* the registration whose callback is running (0: none)
    runs,        \* the runs of the body so far, in order
    report       \* the host's report per registration, in order

VARIABLES
    \* ---- SpecAsserts: one call of throws(thunk, error?) or throwsAsync ----
    aThunk,      \* what thunk does when called: returns, or throws a value
    aError,      \* the second argument: absent, an Error, or a function
    aCall,       \* the helper that was called ("none" before the call)
    aOutcome,    \* how the call ended
    aApplied     \* the values the function argument was applied to, in order

assertVars == <<aThunk, aError, aCall, aOutcome, aApplied>>

modVars == <<modifier, condition, cases, eachTable, regPc, registered, cur,
             runs, report>>

nestVars == <<regForm, nestedOptions, afterOrder, plan, stepPc, regCache, regBuilding,
              memoMaps, built, regScope, closedOrder, freed, regGot, ran>>

layerVars == <<form, excludeTestServices, cache, building, buildRuns, memoMap,
               constructed, scope, released, counts, hostPc, cpc, got, thost,
               tread, twrote, tbefore, testScopeVars, nestVars, modVars,
               assertVars>>

vars == <<bridgeVars, flakyVars, layerVars>>

NoExit == [tag |-> "None", cause |-> <<>>]

None == -1

IdleFlaky ==
    /\ fpc = "idle"
    /\ timeout = 0
    /\ succeedAt = 0
    /\ now = 0
    /\ attempts = 0
    /\ schedule = [recurs |-> 0, elapsed |-> None]
    /\ firstStart = None
    /\ lastAttempt = "none"
    /\ defects = 0
    /\ flakyExit = NoExit

NumTests == 2        \* tests registered through the registrar's tester
Tests == 1..NumTests
Consumers == 0..NumTests
LeafNames == {"TestEnv", "Counter"}
NoResult == [tag |-> "none", inst |-> 0]

Regs == {"outer", "nested"}
NestLeaves == {"TestEnv", "Counter", "Nested"}
NoEntry == [inst |-> 0, obs |-> 0]

NoOptions == [memoMap |-> "absent", excludeTestServices |-> "absent",
              timeout |-> "absent"]

IdleNested ==
    /\ regForm = [r \in Regs |-> "none"]
    /\ nestedOptions = NoOptions
    /\ afterOrder = "none"
    /\ plan = <<>>
    /\ stepPc = "idle"
    /\ regCache = [r \in Regs |-> [status |-> "empty", result |-> NoResult]]
    /\ regBuilding = [r \in Regs |-> <<>>]
    /\ memoMaps = [m \in Regs |-> [l \in NestLeaves |-> NoEntry]]
    /\ built = <<>>
    /\ regScope = [r \in Regs |-> [closed |-> FALSE, finalizers |-> <<>>]]
    /\ closedOrder = <<>>
    /\ freed = <<>>
    /\ regGot = [r \in Regs |-> NoResult]
    /\ ran = [r \in Regs |-> FALSE]

IdleModifiers ==
    /\ modifier = "none"
    /\ condition = "undefined"
    /\ cases = <<>>
    /\ eachTable = "none"
    /\ regPc = "unregistered"
    /\ registered = <<>>
    /\ cur = 0
    /\ runs = <<>>
    /\ report = <<>>

IdleRegistrar ==
    /\ form = "none"
    /\ excludeTestServices = FALSE
    /\ cache = [status |-> "empty", result |-> NoResult]
    /\ building = <<>>
    /\ buildRuns = 0
    /\ memoMap = [l \in LeafNames |-> 0]
    /\ constructed = [l \in LeafNames |-> 0]
    /\ scope = [closed |-> FALSE, finalizers |-> <<>>]
    /\ released = <<>>
    /\ counts = <<>>
    /\ hostPc = "idle"
    /\ cpc = [c \in Consumers |-> "registered"]
    /\ got = [c \in Consumers |-> NoResult]
    /\ thost = [t \in Tests |-> "notrun"]
    /\ tread = [t \in Tests |-> 0]
    /\ twrote = [t \in Tests |-> 0]
    /\ tbefore = [t \in Tests |-> {}]
    /\ tfins = [t \in Tests |-> 0]

IdleAsserts ==
    /\ aThunk = [kind |-> "none"]
    /\ aError = [form |-> "none"]
    /\ aCall = "none"
    /\ aOutcome = "none"
    /\ aApplied = <<>>

IdleLayer ==
    /\ IdleAsserts
    /\ IdleNested
    /\ IdleModifiers
    /\ IdleRegistrar

InitBridge ==
    /\ IdleFlaky
    /\ IdleLayer
    /\ tester \in Testers
    /\ pc = "registered"
    /\ exit = NoExit
    /\ finalizers = <<>>
    /\ finLog = <<>>
    /\ errors = <<>>
    /\ i = 0
    /\ logged = <<>>
    /\ promise = Pending
    /\ hostTest = "registered"

\* The host invokes the registered closure () => run(self): runPromise starts
\* the mapped effect; Effect.suspend has not evaluated the thunk yet.
HostInvoke ==
    /\ pc = "registered"
    /\ pc' = IF mapEffect(tester).runtime THEN "runtime" ELSE "suspended"
    /\ hostTest' = "awaiting"
    /\ UNCHANGED <<tester, exit, finalizers, finLog, errors, i, logged, promise>>
    /\ UNCHANGED flakyVars
    /\ UNCHANGED layerVars

\* flatMap(runtimeEffect, ...): the cached construction yields the runtime, or
\* dies (Effect.orDie) and the body never starts.
ForceRuntime ==
    /\ pc = "runtime"
    /\ \/ /\ pc' = "suspended"
          /\ exit' = exit
       \/ /\ pc' = "exited"
          /\ exit' = ExitFailure(<<Die("d1")>>)
    /\ UNCHANGED <<tester, hostTest, finalizers, finLog, errors, i, logged, promise>>
    /\ UNCHANGED flakyVars
    /\ UNCHANGED layerVars

\* Effect.suspend(self): the thunk is evaluated; it returns the body or throws.
EvalThunk ==
    /\ pc = "suspended"
    /\ \/ /\ pc' = "body"
          /\ exit' = exit
       \/ /\ pc' = "exited"
          /\ exit' = ExitFailure(<<Die("d1")>>)
    /\ UNCHANGED <<tester, hostTest, finalizers, finLog, errors, i, logged, promise>>
    /\ UNCHANGED flakyVars
    /\ UNCHANGED layerVars

\* The body registers a finalizer in its scope (Effect.addFinalizer).
AddFinalizer ==
    /\ pc = "body"
    /\ BodyHasScope(tester)
    /\ Len(finalizers) < MaxFin
    /\ finalizers' = Append(finalizers, Len(finalizers) + 1)
    /\ UNCHANGED <<tester, hostTest, pc, exit, finLog, errors, i, logged, promise>>
    /\ UNCHANGED flakyVars
    /\ UNCHANGED layerVars

\* The body terminates with an Exit; under Effect.scoped the scope closes next.
BodyExit ==
    /\ pc = "body"
    /\ \E ex \in Exits :
          exit' = ex
    /\ pc' = IF mapEffect(tester).scoped THEN "closing" ELSE "exited"
    /\ UNCHANGED <<tester, hostTest, finalizers, finLog, errors, i, logged, promise>>
    /\ UNCHANGED flakyVars
    /\ UNCHANGED layerVars

\* Effect.scoped closes the scope: the next finalizer in reverse order runs.
RunFinalizer ==
    /\ pc = "closing"
    /\ Len(finLog) < Len(finalizers)
    /\ finLog' = Append(finLog, Reverse(finalizers)[Len(finLog) + 1])
    /\ UNCHANGED <<tester, hostTest, pc, exit, finalizers, errors, i, logged, promise>>
    /\ UNCHANGED flakyVars
    /\ UNCHANGED layerVars

ScopeClosed ==
    /\ pc = "closing"
    /\ Len(finLog) = Len(finalizers)
    /\ pc' = "exited"
    /\ UNCHANGED <<tester, hostTest, exit, finalizers, finLog, errors, i, logged,
                   promise>>
    /\ UNCHANGED flakyVars
    /\ UNCHANGED layerVars

\* runPromise after `yield* Effect.exit(effect)`: success resolves, an
\* interrupted-only cause throws the generic error, otherwise the cause is
\* rendered and the loop over errors[1..] starts.
RunPromiseExit ==
    /\ pc = "exited"
    /\ IF isSuccess(exit)
       THEN /\ promise' = Resolved
            /\ pc' = "settled"
            /\ UNCHANGED <<errors, i>>
       ELSE IF isInterruptedOnly(exit.cause)
       THEN /\ promise' = Rejected(InterruptedError)
            /\ pc' = "settled"
            /\ UNCHANGED <<errors, i>>
       ELSE /\ errors' = prettyErrors(exit.cause)
            /\ i' = 1
            /\ pc' = "logging"
            /\ UNCHANGED promise
    /\ UNCHANGED <<tester, hostTest, exit, finalizers, finLog, logged>>
    /\ UNCHANGED flakyVars
    /\ UNCHANGED layerVars

\* The loop stopping one entry early.
logLoopCond_short(k, errs) == k < Len(errs) - 1

\* The loop condition i < errors.length.
logLoopCond(k, errs) == k < Len(errs)

\* for (let i = 1; i < errors.length; i++) yield* Effect.logError(errors[i])
\* errors is 0-based in the source: errors[i] there is errors[i + 1] here.
RunPromiseLog ==
    /\ pc = "logging"
    /\ logLoopCond(i, errors)
    /\ logged' = Append(logged, errors[i + 1])
    /\ i' = i + 1
    /\ UNCHANGED <<tester, hostTest, pc, exit, finalizers, finLog, errors, promise>>
    /\ UNCHANGED flakyVars
    /\ UNCHANGED layerVars

\* throw errors[0]
RunPromiseThrow ==
    /\ pc = "logging"
    /\ ~logLoopCond(i, errors)
    /\ promise' = Rejected(thrown(errors))
    /\ pc' = "settled"
    /\ UNCHANGED <<tester, hostTest, exit, finalizers, finLog, errors, i, logged>>
    /\ UNCHANGED flakyVars
    /\ UNCHANGED layerVars

\* The promise has settled while the host awaits it: the host reports the
\* test from the promise's outcome.
HostSettled ==
    /\ hostTest = "awaiting"
    /\ pc = "settled"
    /\ hostTest' = "finished"
    /\ UNCHANGED <<tester, pc, exit, finalizers, finLog, errors, i, logged,
                   promise>>
    /\ UNCHANGED flakyVars
    /\ UNCHANGED layerVars

\* The host's timeout fires before the promise has settled: the host reports
\* the test as timed out. The closure given to the host is () => run(self),
\* and runPromise runs the effect with no abort signal and no onTestFinished
\* callback, so nothing reaches the running effect.
HostTimeout ==
    /\ hostTest = "awaiting"
    /\ pc # "settled"
    /\ hostTest' = "timedout"
    /\ UNCHANGED <<tester, pc, exit, finalizers, finLog, errors, i, logged,
                   promise>>
    /\ UNCHANGED flakyVars
    /\ UNCHANGED layerVars

NextBridge ==
    \/ HostInvoke
    \/ HostSettled
    \/ HostTimeout
    \/ ForceRuntime
    \/ EvalThunk
    \/ AddFinalizer
    \/ BodyExit
    \/ RunFinalizer
    \/ ScopeClosed
    \/ RunPromiseExit
    \/ RunPromiseLog
    \/ RunPromiseThrow

SpecBridge == InitBridge /\ [][NextBridge]_vars

\* --------------------------------------------------------------------------
\* flakyTest: catchAllDefect, Effect.retry over the schedule, orDie
\* --------------------------------------------------------------------------
Recurs == 10         \* Schedule.recurs(10)
MaxTime == 3         \* the clock stops advancing here
Timeouts == 0..(MaxTime + 1)      \* MaxTime + 1 never elapses
SucceedAts == 1..(Recurs + 2)     \* Recurs + 2: self has not succeeded by then

\* The value self yields on its k-th execution.
ValueOf(k) == k

\* Schedule.forever = unfold(0, n => n + 1): outputs its state, always continues.
foreverStep(s) == [state |-> s + 1, out |-> s, cont |-> TRUE]

\* recurs that lets one more recurrence through (n <= 10).
recursStep_inclusive(s) ==
    LET r == foreverStep(s) IN [r EXCEPT !.cont = r.cont /\ r.out <= Recurs]

\* Schedule.recurs(n) = whileOutput(forever, k => k < n)
recursStep(s) ==
    LET r == foreverStep(s) IN [r EXCEPT !.cont = r.cont /\ r.out < Recurs]

\* Schedule.elapsed: the first step records the clock and outputs zero; later
\* steps output the time since that first step.
elapsedStep(t, s) ==
    IF s = None THEN [state |-> t, out |-> 0, cont |-> TRUE]
    ELSE [state |-> s, out |-> t - s, cont |-> TRUE]

\* The comparison turned round: timeout <= elapsed.
lessThanOrEqualTo_flipped(out, that) == that <= out

\* No elapsed-time cutoff at all.
lessThanOrEqualTo_always(out, that) == TRUE

\* Duration.lessThanOrEqualTo(timeout) applied to the schedule's output.
lessThanOrEqualTo(out, that) == out <= that

\* recurs(10) |> compose(elapsed) |> whileOutput(lessThanOrEqualTo(timeout)):
\* compose steps both schedules and continues only while both continue; its
\* output is the elapsed time; whileOutput stops once the output fails the test.
scheduleStep(t, st, limit) ==
    LET l == recursStep(st.recurs)
        r == elapsedStep(t, st.elapsed)
    IN  [state |-> [recurs |-> l.state, elapsed |-> r.state],
         out |-> r.out,
         cont |-> l.cont /\ r.cont /\ lessThanOrEqualTo(r.out, limit)]

\* Defects left as they are.
catchAllDefect_kept(ex) == ex

\* Effect.catchAllDefect(self, defect => Effect.fail(defect)): a Die becomes a Fail.
catchAllDefect(ex) ==
    IF ex.tag = "Failure"
    THEN ExitFailure([k \in 1..Len(ex.cause) |->
                        IF ex.cause[k].kind = "Die" THEN Fail(ex.cause[k].err)
                        ELSE ex.cause[k]])
    ELSE ex

\* Effect.retry retrying whatever the effect failed with.
retries_anyCause(ex) == ex.tag = "Failure"

\* Effect.retry consults the schedule only for a typed failure: a cause with
\* no Fail leaf (a defect, an interruption) is not retried.
retries(ex) ==
    /\ ex.tag = "Failure"
    /\ \E k \in 1..Len(ex.cause) : ex.cause[k].kind = "Fail"

\* The typed failure handed on as it is.
orDie_kept(ex) == ex

\* Effect.orDie: a Fail becomes a Die.
orDie(ex) ==
    IF ex.tag = "Failure"
    THEN ExitFailure([k \in 1..Len(ex.cause) |->
                        IF ex.cause[k].kind = "Fail" THEN Die(ex.cause[k].err)
                        ELSE ex.cause[k]])
    ELSE ex

InitFlaky ==
    /\ tester \in {"effect", "live"}
    /\ pc = "registered"
    /\ exit = NoExit
    /\ finalizers = <<>>
    /\ finLog = <<>>
    /\ errors = <<>>
    /\ i = 0
    /\ logged = <<>>
    /\ promise = Pending
    /\ hostTest = "registered"
    /\ fpc = "ready"
    /\ timeout \in Timeouts
    /\ succeedAt \in SucceedAts
    /\ now = 0
    /\ attempts = 0
    /\ schedule = [recurs |-> 0, elapsed |-> None]
    /\ firstStart = None
    /\ lastAttempt = "none"
    /\ defects = 0
    /\ flakyExit = NoExit
    /\ IdleLayer

\* flakyTest terminates with exit ex: the test body is over.
FlakyDone(ex) ==
    /\ fpc' = "done"
    /\ flakyExit' = ex
    /\ exit' = ex
    /\ pc' = IF mapEffect(tester).scoped THEN "closing" ELSE "exited"

\* self is executed (the first time, or again after the schedule continued).
StartAttempt ==
    /\ pc = "body"
    /\ fpc = "ready"
    /\ fpc' = "running"
    /\ attempts' = attempts + 1
    /\ firstStart' = IF firstStart = None THEN now ELSE firstStart
    /\ UNCHANGED <<timeout, succeedAt, now, schedule, lastAttempt, defects,
                   flakyExit>>
    /\ UNCHANGED bridgeVars
    /\ UNCHANGED layerVars

\* Time passes while self executes.
Tick ==
    /\ fpc = "running"
    /\ now < MaxTime
    /\ now' = now + 1
    /\ UNCHANGED <<fpc, timeout, succeedAt, attempts, schedule, firstStart,
                   lastAttempt, defects, flakyExit>>
    /\ UNCHANGED bridgeVars
    /\ UNCHANGED layerVars

\* self succeeds: retry and orDie pass the value through.
AttemptSucceeds ==
    /\ fpc = "running"
    /\ attempts = succeedAt
    /\ lastAttempt' = "succeeded"
    /\ FlakyDone(orDie([tag |-> "Success", cause |-> <<>>, value |-> ValueOf(attempts)]))
    /\ UNCHANGED <<timeout, succeedAt, now, attempts, schedule, firstStart,
                   defects>>
    /\ UNCHANGED <<tester, hostTest, finalizers, finLog, errors, i, logged, promise>>
    /\ UNCHANGED layerVars

\* self fails with a typed error or dies; catchAllDefect makes either a typed
\* failure, Effect.retry steps the schedule with it, and either self runs
\* again or the failure leaves retry and orDie makes it a defect. A cause
\* that reaches Effect.retry without a typed failure passes it untouched.
AttemptFails ==
    /\ fpc = "running"
    /\ attempts < succeedAt
    /\ \E leaf \in {Fail("e1"), Die("d1")} :
          LET failure == catchAllDefect(ExitFailure(<<leaf>>))
              d == scheduleStep(now, schedule, timeout)
          IN  /\ lastAttempt' = "failed"
              /\ defects' = IF leaf.kind = "Die" THEN defects + 1 ELSE defects
              /\ IF retries(failure)
                 THEN /\ schedule' = d.state
                      /\ IF d.cont
                         THEN /\ fpc' = "ready"
                              /\ UNCHANGED <<flakyExit, exit, pc>>
                         ELSE FlakyDone(orDie(failure))
                 ELSE /\ UNCHANGED schedule
                      /\ FlakyDone(orDie(failure))
    /\ UNCHANGED <<timeout, succeedAt, now, attempts, firstStart>>
    /\ UNCHANGED <<tester, hostTest, finalizers, finLog, errors, i, logged, promise>>
    /\ UNCHANGED layerVars

\* self is interrupted: the cause goes through catchAllDefect, Effect.retry
\* and orDie like any other; none of them handles an interruption, so
\* flakyTest ends with it.
AttemptInterrupted ==
    /\ fpc = "running"
    /\ lastAttempt' = "interrupted"
    /\ LET failure == catchAllDefect(ExitFailure(<<Interrupt>>))
           d == scheduleStep(now, schedule, timeout)
       IN  IF retries(failure)
           THEN /\ schedule' = d.state
                /\ IF d.cont
                   THEN /\ fpc' = "ready"
                        /\ UNCHANGED <<flakyExit, exit, pc>>
                   ELSE FlakyDone(orDie(failure))
           ELSE /\ UNCHANGED schedule
                /\ FlakyDone(orDie(failure))
    /\ UNCHANGED <<timeout, succeedAt, now, attempts, firstStart, defects>>
    /\ UNCHANGED <<tester, hostTest, finalizers, finLog, errors, i, logged, promise>>
    /\ UNCHANGED layerVars

\* The thunk of the test returns flakyTest(self, timeout).
EvalFlakyThunk ==
    /\ pc = "suspended"
    /\ pc' = "body"
    /\ UNCHANGED <<tester, hostTest, exit, finalizers, finLog, errors, i, logged,
                   promise>>
    /\ UNCHANGED flakyVars
    /\ UNCHANGED layerVars

NextFlaky ==
    \/ HostInvoke
    \/ EvalFlakyThunk
    \/ StartAttempt
    \/ Tick
    \/ AttemptSucceeds
    \/ AttemptFails
    \/ AttemptInterrupted
    \/ RunPromiseExit
    \/ RunPromiseThrow

SpecFlaky == InitFlaky /\ [][NextFlaky]_vars

\* --------------------------------------------------------------------------
\* layer(layer_, options): one registrar, its hooks and its tests
\* --------------------------------------------------------------------------
Runtime(inst) == [tag |-> "runtime", inst |-> inst]
BuildDied == [tag |-> "die", inst |-> 0]

\* withTestEnv: layer_ alone, or provideMerge(layer_, TestEnv), whose build
\* provides TestEnv first. Here layer_ is the Counter service.
withTestEnv(exclude) == IF exclude THEN <<"Counter">> ELSE <<"TestEnv", "Counter">>

\* A cache that keeps a built runtime but not a failed construction.
cached_successOnly(c) ==
    IF c.status = "empty" \/ (c.status = "done" /\ c.result.tag = "die") THEN "start"
    ELSE IF c.status = "pending" THEN "wait"
    ELSE "hit"

\* The construction effect run afresh by every force (no Effect.cached).
cached_rerun(c) == "start"

\* Effect.cached: the first force starts the construction, a force during the
\* construction waits for it, a force after it takes the memoized result.
cached(c) ==
    IF c.status = "empty" THEN "start"
    ELSE IF c.status = "pending" THEN "wait"
    ELSE "hit"

\* The body provided whatever the construction gave, a defect included.
provideRuntime_anyway(r) == "body"

\* Effect.flatMap(runtimeEffect, (runtime) => Effect.provide(e, runtime)): the
\* body runs with the runtime; a died construction ends the effect before it.
provideRuntime(r) == IF r.tag = "runtime" THEN "body" ELSE "settled"

\* The promise of the beforeAll hook, () => runPromise(asVoid(runtimeEffect)):
\* pending until the run settles, then resolved with the runtime built or
\* rejected with the rendered defect of the construction.
hookPromise(pos, r) ==
    IF pos # "settled" THEN Pending
    ELSE IF r.tag = "runtime" THEN Resolved
    ELSE Rejected(thrown(prettyErrors(<<Die("d1")>>)))

\* Scope.close(scope) registered as the beforeAll hook and the construction as
\* the afterAll hook.
hooks_swapped == [beforeAll |-> "close", afterAll |-> "build"]

\* beforeAll forces runtimeEffect; afterAll closes the Scope (both forms of
\* the registrar register the same pair).
hooks == [beforeAll |-> "build", afterAll |-> "close"]

InitLayer ==
    /\ tester \in {"layer.effect", "layer.scoped", "v4.layer.effect"}
    /\ pc = "registered"
    /\ exit = NoExit
    /\ finalizers = <<>>
    /\ finLog = <<>>
    /\ errors = <<>>
    /\ i = 0
    /\ logged = <<>>
    /\ promise = Pending
    /\ hostTest = "registered"
    /\ IdleFlaky
    /\ IdleNested
    /\ IdleModifiers
    /\ IdleAsserts
    /\ form \in {"named", "unnamed"}
    /\ excludeTestServices \in BOOLEAN
    /\ cache = [status |-> "empty", result |-> NoResult]
    /\ building = <<>>
    /\ buildRuns = 0
    /\ memoMap = [l \in LeafNames |-> 0]
    /\ constructed = [l \in LeafNames |-> 0]
    /\ scope = [closed |-> FALSE, finalizers |-> <<>>]
    /\ released = <<>>
    /\ counts = <<>>
    /\ hostPc = "beforeAll"
    /\ cpc = [c \in Consumers |-> "registered"]
    /\ got = [c \in Consumers |-> NoResult]
    /\ thost = [t \in Tests |-> "notrun"]
    /\ tread = [t \in Tests |-> 0]
    /\ twrote = [t \in Tests |-> 0]
    /\ tbefore = [t \in Tests |-> {}]
    /\ tfins = [t \in Tests |-> 0]

\* Scope.close(scope, Exit.void): the finalizers run, latest first.
CloseScope ==
    /\ scope' = [closed |-> TRUE, finalizers |-> <<>>]
    /\ released' = released \o Reverse(scope.finalizers)

\* Consumer c forces runtimeEffect.
ForceCached(c) ==
    LET decision == cached(cache) IN
    IF decision = "start"
    THEN /\ cache' = [status |-> "pending", result |-> NoResult]
         /\ buildRuns' = buildRuns + 1
         /\ building' = withTestEnv(excludeTestServices)
         /\ cpc' = [cpc EXCEPT ![c] = "waiting"]
         /\ UNCHANGED got
    ELSE IF decision = "wait"
    THEN /\ cpc' = [cpc EXCEPT ![c] = "waiting"]
         /\ UNCHANGED <<cache, buildRuns, building, got>>
    ELSE /\ cpc' = [cpc EXCEPT ![c] = "got"]
         /\ got' = [got EXCEPT ![c] = cache.result]
         /\ UNCHANGED <<cache, buildRuns, building>>

\* The host runs the group's beforeAll hook.
HostBeforeAll ==
    /\ hostPc = "beforeAll"
    /\ hostPc' = "hook"
    /\ IF hooks.beforeAll = "build"
       THEN /\ ForceCached(0)
            /\ UNCHANGED <<scope, released>>
       ELSE /\ CloseScope
            /\ cpc' = [cpc EXCEPT ![0] = "settled"]
            /\ UNCHANGED <<cache, buildRuns, building, got>>
    /\ UNCHANGED <<form, excludeTestServices, memoMap, constructed, counts,
                   thost, tread, twrote, tbefore>>
    /\ UNCHANGED <<bridgeVars, flakyVars, nestVars, modVars, assertVars,
                   testScopeVars>>

\* Layer.toRuntimeWithMemoMap(withTestEnv, memoMap) under Scope.extend(scope):
\* the next leaf is taken from the MemoMap or constructed, and its release is
\* added to the Scope (run at once if the Scope is closed already). After the
\* last leaf Effect.cached holds the runtime.
BuildLeaf ==
    /\ building # <<>>
    /\ LET leaf == Head(building)
           hit == memoMap[leaf] # 0
           inst == IF hit THEN memoMap[leaf]
                   ELSE IF leaf = "Counter" THEN Len(counts) + 1
                   ELSE 1
       IN  /\ memoMap' = [memoMap EXCEPT ![leaf] = inst]
           /\ constructed' = IF hit THEN constructed
                             ELSE [constructed EXCEPT ![leaf] = @ + 1]
           /\ counts' = IF ~hit /\ leaf = "Counter" THEN Append(counts, 0) ELSE counts
           /\ IF scope.closed
              THEN /\ released' = Append(released, leaf)
                   /\ UNCHANGED scope
              ELSE /\ scope' = [scope EXCEPT !.finalizers = Append(@, leaf)]
                   /\ UNCHANGED released
           /\ building' = Tail(building)
           /\ cache' = IF Tail(building) = <<>>
                       THEN [status |-> "done", result |-> Runtime(memoMap'["Counter"])]
                       ELSE cache
    /\ UNCHANGED <<form, excludeTestServices, buildRuns, hostPc, cpc, got,
                   thost, tread, twrote, tbefore>>
    /\ UNCHANGED <<bridgeVars, flakyVars, nestVars, modVars, assertVars,
                   testScopeVars>>

\* The construction of a leaf fails: Effect.orDie makes it a defect and
\* Effect.cached keeps that outcome.
BuildFails ==
    /\ building # <<>>
    /\ building' = <<>>
    /\ cache' = [status |-> "done", result |-> BuildDied]
    /\ UNCHANGED <<form, excludeTestServices, buildRuns, memoMap, constructed,
                   scope, released, counts, hostPc, cpc, got, thost, tread,
                   twrote, tbefore>>
    /\ UNCHANGED <<bridgeVars, flakyVars, nestVars, modVars, assertVars,
                   testScopeVars>>

\* A consumer waiting on the construction takes its outcome.
Resume(c) ==
    /\ cpc[c] = "waiting"
    /\ cache.status = "done"
    /\ cpc' = [cpc EXCEPT ![c] = "got"]
    /\ got' = [got EXCEPT ![c] = cache.result]
    /\ UNCHANGED <<form, excludeTestServices, cache, building, buildRuns,
                   memoMap, constructed, scope, released, counts, hostPc,
                   thost, tread, twrote, tbefore>>
    /\ UNCHANGED <<bridgeVars, flakyVars, nestVars, modVars, assertVars,
                   testScopeVars>>

\* runPromise(Effect.asVoid(runtimeEffect)) settles: the beforeAll promise
\* resolves with the runtime built and rejects with the construction's defect.
HookSettles ==
    /\ cpc[0] = "got"
    /\ cpc' = [cpc EXCEPT ![0] = "settled"]
    /\ UNCHANGED <<form, excludeTestServices, cache, building, buildRuns,
                   memoMap, constructed, scope, released, counts, hostPc, got,
                   thost, tread, twrote, tbefore>>
    /\ UNCHANGED <<bridgeVars, flakyVars, nestVars, modVars, assertVars,
                   testScopeVars>>

\* The host has the hook's outcome, or its timeout for the hook fires while
\* the construction still runs (runPromise passes no signal: it runs on). A
\* failed or timed-out beforeAll makes the host skip the tests or run them.
HostHookOver ==
    /\ hostPc = "hook"
    /\ \/ /\ hookPromise(cpc[0], got[0]) = Resolved
          /\ hostPc' = "tests"
       \/ /\ hookPromise(cpc[0], got[0]) # Resolved
          /\ hostPc' \in {"tests", "afterAll"}
    /\ UNCHANGED <<form, excludeTestServices, cache, building, buildRuns,
                   memoMap, constructed, scope, released, counts, cpc, got,
                   thost, tread, twrote, tbefore>>
    /\ UNCHANGED <<bridgeVars, flakyVars, nestVars, modVars, assertVars,
                   testScopeVars>>

\* The host invokes the closure of the next test, in registration order: the
\* mapped effect starts with flatMap(runtimeEffect, ...) or, for a tester
\* that has no runtime, the body provides a Counter of its own.
HostRunTest(t) ==
    /\ hostPc = "tests"
    /\ thost[t] = "notrun"
    /\ \A u \in Tests : u < t => thost[u] \in {"finished", "timedout"}
    /\ thost' = [thost EXCEPT ![t] = "awaited"]
    /\ IF mapEffect(tester).runtime
       THEN /\ ForceCached(t)
            /\ UNCHANGED counts
       ELSE /\ counts' = Append(counts, 0)
            /\ cpc' = [cpc EXCEPT ![t] = "got"]
            /\ got' = [got EXCEPT ![t] = Runtime(Len(counts) + 1)]
            /\ UNCHANGED <<cache, buildRuns, building>>
    /\ UNCHANGED <<form, excludeTestServices, memoMap, constructed, scope,
                   released, hostPc, tread, twrote, tbefore>>
    /\ UNCHANGED <<bridgeVars, flakyVars, nestVars, modVars, assertVars,
                   testScopeVars>>

\* Effect.provide(e, runtime): the body starts with the services of the
\* runtime and reads the Counter; a died construction fails the test before
\* its body.
TestBodyStart(t) ==
    /\ t \in Tests
    /\ cpc[t] = "got"
    /\ IF provideRuntime(got[t]) = "body"
       THEN /\ cpc' = [cpc EXCEPT ![t] = "body"]
            /\ tread' = [tread EXCEPT ![t] =
                            IF got[t].inst \in DOMAIN counts
                            THEN counts[got[t].inst] ELSE 0]
            /\ tbefore' = [tbefore EXCEPT ![t] = {u \in Tests : cpc[u] = "settled"}]
       ELSE /\ cpc' = [cpc EXCEPT ![t] = "settled"]
            /\ UNCHANGED <<tread, tbefore>>
    /\ UNCHANGED <<form, excludeTestServices, cache, building, buildRuns,
                   memoMap, constructed, scope, released, counts, hostPc, got,
                   thost, twrote>>
    /\ UNCHANGED <<bridgeVars, flakyVars, nestVars, modVars, assertVars,
                   testScopeVars>>

\* The body increments the Counter it was provided (counter.increment).
TestIncrement(t) ==
    /\ t \in Tests
    /\ cpc[t] = "body"
    /\ twrote[t] = 0
    /\ counts' = [counts EXCEPT ![got[t].inst] = @ + 1]
    /\ twrote' = [twrote EXCEPT ![t] = counts[got[t].inst] + 1]
    /\ UNCHANGED <<form, excludeTestServices, cache, building, buildRuns,
                   memoMap, constructed, scope, released, hostPc, cpc, got,
                   thost, tread, tbefore>>
    /\ UNCHANGED <<bridgeVars, flakyVars, nestVars, modVars, assertVars,
                   testScopeVars>>

\* The body of a test run through a scoped tester registers a finalizer in
\* the scope Effect.scoped gave it.
TestAddFinalizer(t) ==
    /\ t \in Tests
    /\ cpc[t] = "body"
    /\ mapEffect(tester).scoped
    /\ tfins[t] < MaxFin
    /\ tfins' = [tfins EXCEPT ![t] = @ + 1]
    /\ UNCHANGED <<form, excludeTestServices, cache, building, buildRuns,
                   memoMap, constructed, scope, released, counts, hostPc, cpc,
                   got, thost, tread, twrote, tbefore>>
    /\ UNCHANGED <<bridgeVars, flakyVars, nestVars, modVars, assertVars>>

\* The body ends, Effect.scoped closes the test's own scope, which runs the
\* finalizers registered in it and none of the registrar's Scope, and
\* runPromise settles the test's promise.
TestBodyEnd(t) ==
    /\ t \in Tests
    /\ cpc[t] = "body"
    /\ cpc' = [cpc EXCEPT ![t] = "settled"]
    /\ tfins' = [tfins EXCEPT ![t] = 0]
    /\ UNCHANGED <<form, excludeTestServices, cache, building, buildRuns,
                   memoMap, constructed, scope, released, counts, hostPc, got,
                   thost, tread, twrote, tbefore>>
    /\ UNCHANGED <<bridgeVars, flakyVars, nestVars, modVars, assertVars>>

\* The host has the outcome of the test it awaits.
HostTestSettled(t) ==
    /\ thost[t] = "awaited"
    /\ cpc[t] = "settled"
    /\ thost' = [thost EXCEPT ![t] = "finished"]
    /\ UNCHANGED <<form, excludeTestServices, cache, building, buildRuns,
                   memoMap, constructed, scope, released, counts, hostPc, cpc,
                   got, tread, twrote, tbefore>>
    /\ UNCHANGED <<bridgeVars, flakyVars, nestVars, modVars, assertVars,
                   testScopeVars>>

\* The host's timeout for the test fires: it reports the test and moves on;
\* runPromise was given no signal, so the test's effect keeps running.
HostTestTimeout(t) ==
    /\ thost[t] = "awaited"
    /\ cpc[t] # "settled"
    /\ thost' = [thost EXCEPT ![t] = "timedout"]
    /\ UNCHANGED <<form, excludeTestServices, cache, building, buildRuns,
                   memoMap, constructed, scope, released, counts, hostPc, cpc,
                   got, tread, twrote, tbefore>>
    /\ UNCHANGED <<bridgeVars, flakyVars, nestVars, modVars, assertVars,
                   testScopeVars>>

\* Every test of the group is over for the host: the tests are done.
HostTestsOver ==
    /\ hostPc = "tests"
    /\ \A t \in Tests : thost[t] \in {"finished", "timedout"}
    /\ hostPc' = "afterAll"
    /\ UNCHANGED <<form, excludeTestServices, cache, building, buildRuns,
                   memoMap, constructed, scope, released, counts, cpc, got,
                   thost, tread, twrote, tbefore>>
    /\ UNCHANGED <<bridgeVars, flakyVars, nestVars, modVars, assertVars,
                   testScopeVars>>

\* The host runs the group's afterAll hook.
HostAfterAll ==
    /\ hostPc = "afterAll"
    /\ hostPc' = "done"
    /\ IF hooks.afterAll = "close"
       THEN /\ CloseScope
            /\ UNCHANGED <<cache, buildRuns, building, cpc, got>>
       ELSE /\ ForceCached(0)
            /\ UNCHANGED <<scope, released>>
    /\ UNCHANGED <<form, excludeTestServices, memoMap, constructed, counts,
                   thost, tread, twrote, tbefore>>
    /\ UNCHANGED <<bridgeVars, flakyVars, nestVars, modVars, assertVars,
                   testScopeVars>>

NextLayer ==
    \/ HostBeforeAll
    \/ BuildLeaf
    \/ BuildFails
    \/ \E c \in Consumers : Resume(c)
    \/ HookSettles
    \/ HostHookOver
    \/ \E t \in Tests : HostRunTest(t)
    \/ \E t \in Tests : TestBodyStart(t)
    \/ \E t \in Tests : TestIncrement(t)
    \/ \E t \in Tests : TestBodyEnd(t)
    \/ \E t \in Tests : HostTestSettled(t)
    \/ \E t \in Tests : HostTestTimeout(t)
    \/ HostTestsOver
    \/ HostAfterAll

\* SpecLayer runs test bodies that register no finalizer of their own.
SpecLayer == InitLayer /\ [][NextLayer]_vars

\* A named group of a registrar made with excludeTestServices, run through a
\* scoped tester, whose test bodies register finalizers in their own scope.
InitLayerScopes ==
    /\ InitLayer
    /\ mapEffect(tester).scoped
    /\ form = "named"
    /\ excludeTestServices

NextLayerScopes ==
    \/ NextLayer
    \/ \E t \in Tests : TestAddFinalizer(t)

SpecLayerScopes == InitLayerScopes /\ [][NextLayerScopes]_vars

\* --------------------------------------------------------------------------
\* Nested registrars: it.layer(nestedLayer)(...) inside layer(layer_)(...)
\* --------------------------------------------------------------------------
\* Every registrar with a MemoMap of its own.
memoMapOf_own(r) == r

\* LayerOptions as a caller can give them: a MemoMap of the caller's (named
\* after the registrar it is given to), excludeTestServices, a timeout.
LayerOptions ==
    [memoMap : {"absent", "nested"},
     excludeTestServices : {"absent", "true", "false"},
     timeout : {"absent", "5 seconds"}]

\* The nested options spread last, over memoMap and excludeTestServices.
mergeOptions_nestedWins(outerMemoMap, given) ==
    [memoMap |-> IF given.memoMap = "absent" THEN outerMemoMap ELSE given.memoMap,
     excludeTestServices |-> IF given.excludeTestServices = "absent" THEN "true"
                             ELSE given.excludeTestServices,
     timeout |-> given.timeout]

\* { ...nestedOptions, memoMap, excludeTestServices: true }: the options
\* makeIt().layer hands to layer for the nested registrar.
mergeOptions(outerMemoMap, given) ==
    [memoMap |-> outerMemoMap,
     excludeTestServices |-> "true",
     timeout |-> given.timeout]

\* options?.memoMap ?? makeMemoMap: the MemoMap given, or one of the
\* registrar's own.
resolveMemoMap(r, options) ==
    IF options.memoMap = "absent" THEN r ELSE options.memoMap

\* options?.excludeTestServices ?? false
resolveExclude(options) == options.excludeTestServices = "true"

\* The options each registrar is made with: the outer one is given
\* excludeTestServices alone, the nested one what makeIt().layer hands on.
optionsOf(r, exclude) ==
    LET outer == [NoOptions EXCEPT !.excludeTestServices =
                     IF exclude THEN "true" ELSE "false"]
    IN  IF r = "outer" THEN outer
        ELSE mergeOptions(resolveMemoMap("outer", outer), nestedOptions)

\* const memoMap = options?.memoMap ?? makeMemoMap: the outer registrar makes
\* its MemoMap, and makeIt().layer passes it on in the nested options.
memoMapOf(r) == resolveMemoMap(r, optionsOf(r, FALSE))

\* The layer a registrar builds: the outer one its withTestEnv; the nested one
\* the withTestEnv it makes of Layer.provideMerge(nestedLayer, withTestEnv)
\* under its own excludeTestServices. provideMerge builds what it is given
\* second first.
graphOf(r, exclude) ==
    IF r = "outer" THEN withTestEnv(exclude)
    ELSE (IF resolveExclude(optionsOf(r, exclude)) THEN <<>> ELSE <<"TestEnv">>)
         \o withTestEnv(exclude) \o <<"Nested">>

Step(kind, r) == [kind |-> kind, reg |-> r]
IsAfterAll(st) == st.kind = "afterAll"

\* The order in which the host runs what the two registrars registered. A
\* named nested registrar wraps its hooks and tests in a describe of its own,
\* run inside the outer group; an unnamed one registers its hooks in the
\* group of the outer registrar's hooks, after them. beforeAll hooks of one
\* group run in registration order; afterAll hooks of one group run in
\* registration order or in reverse, as the host has it.
hostPlan(nestedForm, order) ==
    IF nestedForm = "named"
    THEN << Step("beforeAll", "outer"), Step("test", "outer"),
            Step("beforeAll", "nested"), Step("test", "nested"),
            Step("afterAll", "nested"), Step("afterAll", "outer") >>
    ELSE << Step("beforeAll", "outer"), Step("beforeAll", "nested"),
            Step("test", "outer"), Step("test", "nested") >>
         \o (IF order = "registration"
             THEN << Step("afterAll", "outer"), Step("afterAll", "nested") >>
             ELSE << Step("afterAll", "nested"), Step("afterAll", "outer") >>)

builtCount(leaf) == Cardinality({k \in 1..Len(built) : built[k] = leaf})

\* The finalizers of a Scope run: each gives back one hold on its MemoMap
\* entry, and the entry's resource is released with its last hold.
RECURSIVE ReleaseAll(_, _, _)
ReleaseAll(fins, maps, fr) ==
    IF fins = <<>> THEN [maps |-> maps, freed |-> fr]
    ELSE LET m == Head(fins)[1]
             leaf == Head(fins)[2]
             e == maps[m][leaf]
             last == e.obs = 1
         IN  ReleaseAll(Tail(fins),
                        [maps EXCEPT ![m][leaf] =
                            IF last THEN NoEntry ELSE [e EXCEPT !.obs = @ - 1]],
                        IF last THEN Append(fr, leaf) ELSE fr)

InitNested ==
    /\ tester = "layer.effect"
    /\ pc = "registered"
    /\ exit = NoExit
    /\ finalizers = <<>>
    /\ finLog = <<>>
    /\ errors = <<>>
    /\ i = 0
    /\ logged = <<>>
    /\ promise = Pending
    /\ hostTest = "registered"
    /\ IdleFlaky
    /\ IdleModifiers
    /\ IdleAsserts
    /\ form = "none"
    /\ excludeTestServices \in BOOLEAN
    /\ cache = [status |-> "empty", result |-> NoResult]
    /\ building = <<>>
    /\ buildRuns = 0
    /\ memoMap = [l \in LeafNames |-> 0]
    /\ constructed = [l \in LeafNames |-> 0]
    /\ scope = [closed |-> FALSE, finalizers |-> <<>>]
    /\ released = <<>>
    /\ counts = <<>>
    /\ hostPc = "idle"
    /\ cpc = [c \in Consumers |-> "registered"]
    /\ got = [c \in Consumers |-> NoResult]
    /\ thost = [t \in Tests |-> "notrun"]
    /\ tread = [t \in Tests |-> 0]
    /\ twrote = [t \in Tests |-> 0]
    /\ tbefore = [t \in Tests |-> {}]
    /\ tfins = [t \in Tests |-> 0]
    /\ regForm \in [Regs -> {"named", "unnamed"}]
    /\ nestedOptions \in LayerOptions
    /\ afterOrder \in {"registration", "reverse"}
    /\ plan = hostPlan(regForm["nested"], afterOrder)
    /\ stepPc = "idle"
    /\ regCache = [r \in Regs |-> [status |-> "empty", result |-> NoResult]]
    /\ regBuilding = [r \in Regs |-> <<>>]
    /\ memoMaps = [m \in Regs |-> [l \in NestLeaves |-> NoEntry]]
    /\ built = <<>>
    /\ regScope = [r \in Regs |-> [closed |-> FALSE, finalizers |-> <<>>]]
    /\ closedOrder = <<>>
    /\ freed = <<>>
    /\ regGot = [r \in Regs |-> NoResult]
    /\ ran = [r \in Regs |-> FALSE]

NestOthersUnchanged ==
    /\ UNCHANGED <<bridgeVars, flakyVars, modVars, assertVars, testScopeVars>>
    /\ UNCHANGED <<form, excludeTestServices, cache, building, buildRuns,
                   memoMap, constructed, scope, released, counts, hostPc, cpc,
                   got, thost, tread, twrote, tbefore>>

\* The host starts its next step: a beforeAll hook or a test forces the
\* registrar's runtimeEffect, an afterAll hook closes the registrar's Scope.
NestStart ==
    /\ stepPc = "idle"
    /\ plan # <<>>
    /\ LET st == Head(plan)
           r == st.reg
           what == IF st.kind = "test" THEN "build" ELSE hooks[st.kind]
       IN  IF what = "build"
           THEN /\ LET decision == cached(regCache[r]) IN
                   IF decision = "start"
                   THEN /\ regCache' = [regCache EXCEPT ![r] =
                                          [status |-> "pending", result |-> NoResult]]
                        /\ regBuilding' = [regBuilding EXCEPT ![r] =
                                             graphOf(r, excludeTestServices)]
                        /\ stepPc' = "waiting"
                   ELSE /\ stepPc' = IF decision = "wait" THEN "waiting" ELSE "got"
                        /\ UNCHANGED <<regCache, regBuilding>>
                /\ UNCHANGED <<plan, memoMaps, regScope, closedOrder, freed>>
           ELSE /\ LET rel == ReleaseAll(Reverse(regScope[r].finalizers),
                                         memoMaps, freed)
                   IN  /\ memoMaps' = rel.maps
                       /\ freed' = rel.freed
                /\ regScope' = [regScope EXCEPT ![r] =
                                  [closed |-> TRUE, finalizers |-> <<>>]]
                /\ closedOrder' = Append(closedOrder, r)
                /\ plan' = Tail(plan)
                /\ UNCHANGED <<stepPc, regCache, regBuilding>>
    /\ UNCHANGED <<regForm, afterOrder, nestedOptions,
                   built, regGot, ran>>
    /\ NestOthersUnchanged

\* Layer.toRuntimeWithMemoMap(..., memoMap) under Scope.extend(scope): the next
\* leaf is taken from the registrar's MemoMap (one more hold on the entry) or
\* constructed, and the hold's release is added to the registrar's Scope. An
\* entry whose construction failed fails this construction too.
NestBuildLeaf(r) ==
    /\ regBuilding[r] # <<>>
    /\ LET leaf == Head(regBuilding[r])
           m == memoMapOf(r)
           e == memoMaps[m][leaf]
           hit == e.inst # 0
           inst == IF hit THEN e.inst ELSE builtCount(leaf) + 1
       IN  IF e.inst = None
           THEN /\ regCache' = [regCache EXCEPT ![r] =
                                  [status |-> "done", result |-> BuildDied]]
                /\ regBuilding' = [regBuilding EXCEPT ![r] = <<>>]
                /\ UNCHANGED <<memoMaps, built, regScope>>
           ELSE /\ memoMaps' = [memoMaps EXCEPT ![m][leaf] =
                                  [inst |-> inst, obs |-> e.obs + 1]]
                /\ built' = IF hit THEN built ELSE Append(built, leaf)
                /\ regScope' = [regScope EXCEPT ![r].finalizers =
                                  Append(@, <<m, leaf>>)]
                /\ regBuilding' = [regBuilding EXCEPT ![r] = Tail(@)]
                /\ regCache' = IF Tail(regBuilding[r]) = <<>>
                               THEN [regCache EXCEPT ![r] =
                                       [status |-> "done",
                                        result |-> Runtime(memoMaps'[m]["Counter"].inst)]]
                               ELSE regCache
    /\ UNCHANGED <<regForm, afterOrder, nestedOptions,
                   plan, stepPc, closedOrder, freed,
                   regGot, ran>>
    /\ NestOthersUnchanged

\* The construction of a leaf fails: the MemoMap keeps the failure, orDie
\* makes it a defect and Effect.cached keeps that outcome.
NestBuildFails(r) ==
    /\ regBuilding[r] # <<>>
    /\ LET leaf == Head(regBuilding[r])
           m == memoMapOf(r)
       IN  /\ memoMaps[m][leaf] = NoEntry
           /\ memoMaps' = [memoMaps EXCEPT ![m][leaf] = [inst |-> None, obs |-> 0]]
    /\ regCache' = [regCache EXCEPT ![r] = [status |-> "done", result |-> BuildDied]]
    /\ regBuilding' = [regBuilding EXCEPT ![r] = <<>>]
    /\ UNCHANGED <<regForm, afterOrder, nestedOptions,
                   plan, stepPc, built, regScope,
                   closedOrder, freed, regGot, ran>>
    /\ NestOthersUnchanged

\* The running step was waiting on the construction and takes its outcome.
NestResume ==
    /\ stepPc = "waiting"
    /\ regCache[Head(plan).reg].status = "done"
    /\ stepPc' = "got"
    /\ UNCHANGED <<regForm, afterOrder, nestedOptions,
                   plan, regCache, regBuilding, memoMaps,
                   built, regScope, closedOrder, freed, regGot, ran>>
    /\ NestOthersUnchanged

\* The running step is over: a test ran its body with the runtime or failed
\* on the died construction; after a beforeAll hook the host goes on, or,
\* the hook having failed, may skip to the afterAll hooks.
NestStepOver ==
    /\ stepPc = "got"
    /\ stepPc' = "idle"
    /\ LET st == Head(plan)
           r == st.reg
           result == regCache[r].result
       IN  IF st.kind = "test"
           THEN /\ regGot' = [regGot EXCEPT ![r] = result]
                /\ ran' = [ran EXCEPT ![r] = provideRuntime(result) = "body"]
                /\ plan' = Tail(plan)
           ELSE /\ plan' \in IF hookPromise("settled", result) = Resolved
                            THEN {Tail(plan)}
                            ELSE {Tail(plan), SelectSeq(Tail(plan), IsAfterAll)}
                /\ UNCHANGED <<regGot, ran>>
    /\ UNCHANGED <<regForm, afterOrder, nestedOptions,
                   regCache, regBuilding, memoMaps, built,
                   regScope, closedOrder, freed>>
    /\ NestOthersUnchanged

NextNested ==
    \/ NestStart
    \/ \E r \in Regs : NestBuildLeaf(r)
    \/ \E r \in Regs : NestBuildFails(r)
    \/ NestResume
    \/ NestStepOver

SpecNested == InitNested /\ [][NextNested]_vars

\* --------------------------------------------------------------------------
\* Nested registrars: properties of SpecNested
\* --------------------------------------------------------------------------
\* C12: with a registrar nested through the outer registrar's layer method,
\* every leaf service of the outer graph is constructed at most once over the
\* whole nesting tree, and the test of the nested group is given the same
\* instance of the outer service as the test of the outer group.
C12_NestedSharesOuterServices ==
    /\ \A leaf \in NestLeaves : builtCount(leaf) <= 1
    /\ (regGot["outer"].tag = "runtime" /\ regGot["nested"].tag = "runtime") =>
          regGot["outer"].inst = regGot["nested"].inst
    /\ \A r \in Regs : ran[r] => regGot[r] = Runtime(1)

\* Both tests ran their bodies, after the nested construction had taken the
\* outer leaves from the MemoMap and constructed only its own leaf.
C12_Witness ==
    /\ ran["outer"]
    /\ ran["nested"]
    /\ regGot["outer"] = regGot["nested"]
    /\ builtCount("Counter") = 1
    /\ builtCount("Nested") = 1
    /\ memoMaps["outer"]["Counter"].obs = 2

\* C13 as stated: the outer graph is built before the nested graph, each
\* registrar closes only its own Scope, and the nested registrar's Scope is
\* closed before the outer registrar's Scope, in the named form and in the
\* unnamed form.
C13_InnermostFirstTeardown ==
    /\ \A k \in 1..Len(built) :
          built[k] = "Nested" =>
              \A leaf \in {"Counter"} : \E j \in 1..(k - 1) : built[j] = leaf
    /\ \A r \in Regs :
          regScope[r].closed <=> \E k \in 1..Len(closedOrder) : closedOrder[k] = r
    /\ closedOrder \in {<<>>, <<"nested">>, <<"nested", "outer">>}

freedCount(leaf) == Cardinality({k \in 1..Len(freed) : freed[k] = leaf})

\* The leaves of the outer registrar's graph that were constructed.
OuterBuilt ==
    {leaf \in NestLeaves :
        /\ builtCount(leaf) > 0
        /\ \E k \in 1..Len(graphOf("outer", excludeTestServices)) :
              graphOf("outer", excludeTestServices)[k] = leaf}

\* C28 as stated: a service the outer registrar built is finalized exactly
\* once, when the outer registrar's Scope closes: it is live for as long as
\* that Scope is open, whatever the nested registrar's Scope does, and it has
\* been finalized once that Scope is closed.
C28_OuterServicesOutliveNestedScope ==
    \A leaf \in OuterBuilt :
        /\ freedCount(leaf) <= 1
        /\ freedCount(leaf) = 1 <=> regScope["outer"].closed

\* C30: whatever the nested options say, the nested registrar is made with
\* the outer registrar's MemoMap and with excludeTestServices = true, and
\* takes only the timeout from them: its constructions go through the outer
\* MemoMap alone, and the test services are in its graph at most once.
C30_NestedOptionsOverridden ==
    LET effective == optionsOf("nested", excludeTestServices) IN
    /\ effective.memoMap = memoMapOf("outer")
    /\ memoMapOf("nested") = memoMapOf("outer")
    /\ effective.excludeTestServices = "true"
    /\ effective.timeout = nestedOptions.timeout
    /\ \A leaf \in NestLeaves : memoMaps["nested"][leaf] = NoEntry
    /\ Cardinality({k \in 1..Len(graphOf("nested", excludeTestServices)) :
                       graphOf("nested", excludeTestServices)[k] = "TestEnv"}) <= 1
    /\ builtCount("TestEnv") <= 1

\* The nested options gave a MemoMap of their own, excludeTestServices false
\* and a timeout; the nested test ran on the outer instances all the same.
C30_Witness ==
    /\ nestedOptions = [memoMap |-> "nested", excludeTestServices |-> "false",
                        timeout |-> "5 seconds"]
    /\ ~excludeTestServices
    /\ ran["outer"]
    /\ ran["nested"]
    /\ regGot["nested"] = regGot["outer"]
    /\ built = <<"TestEnv", "Counter", "Nested">>

\* --------------------------------------------------------------------------
\* makeTester: the members of a tester and what they register with the host
\* --------------------------------------------------------------------------
MaxCases == 2        \* cases given to each
MaxRuns == 2         \* runs of the body fast-check makes for one property

Modifiers == {"f", "skip", "only", "skipIf", "if", "runIf", "each",
              "failing", "fails", "prop"}

\* JS values given as conditions, and the host's truthy coercion of them.
Conditions == {"true", "false", "0", "'CI'", "undefined"}
truthy(c) == c \in {"true", "'CI'"}

\* JS values given as cases or generated by arbitraries.
Num(n) == [isArray |-> FALSE, items |-> <<n>>]
Arr(s) == [isArray |-> TRUE, items |-> s]
Undef == [isArray |-> FALSE, items |-> <<>>]
CaseValues == {Num(1), Num(2), Arr(<<1, 2>>)}
Generated == {Num(1), Num(2)}

\* The Exits a body can end with.
BodyExits == {ExitSuccess, ExitFailure(<<Fail("e1")>>),
              ExitFailure(<<Die("d1")>>), ExitFailure(<<Interrupt>>)}

\* fails bound to the plain registration instead of failing.
member_failsPlain(m) ==
    IF m \in {"if", "runIf"} THEN "ifCond"
    ELSE IF m = "failing" THEN "failing"
    ELSE IF m = "fails" THEN "f"
    ELSE IF m = "prop" THEN "propFn"
    ELSE m

\* Object.assign(f, { skip, only, skipIf, if: ifCond, runIf: ifCond, each,
\* failing, fails: failing, prop: propFn }): the function behind a member.
member(m) ==
    IF m \in {"if", "runIf"} THEN "ifCond"
    ELSE IF m \in {"failing", "fails"} THEN "failing"
    ELSE IF m = "prop" THEN "propFn"
    ELSE m

\* ifCond delegating to testFn.skipIf.
hostCall_ifAsSkipIf(fn) ==
    CASE fn = "f" -> "test"
      [] fn = "skip" -> "test.skip"
      [] fn = "only" -> "test.only"
      [] fn = "skipIf" -> "test.skipIf"
      [] fn = "ifCond" -> "test.skipIf"
      [] fn = "each" -> "test.each"
      [] fn = "failing" -> "test.failing"
      [] fn = "propFn" -> "test"

\* The host registration each function of the tester delegates to.
hostCall(fn) ==
    CASE fn = "f" -> "test"
      [] fn = "skip" -> "test.skip"
      [] fn = "only" -> "test.only"
      [] fn = "skipIf" -> "test.skipIf"
      [] fn = "ifCond" -> "test.if"
      [] fn = "each" -> "test.each"
      [] fn = "failing" -> "test.failing"
      [] fn = "propFn" -> "test"

\* What the host does with a registration: run it, skip it, or run it with
\* the expectation inverted. The condition is coerced to a boolean.
hostMode(api, c) ==
    CASE api = "test.skip" -> "skip"
      [] api = "test.skipIf" -> IF truthy(c) THEN "skip" ELSE "run"
      [] api = "test.if" -> IF truthy(c) THEN "run" ELSE "skip"
      [] api = "test.failing" -> "failing"
      [] OTHER -> "run"

\* The first argument the host's each hands the callback for a case: the
\* case itself, or, on a host whose table spreads a case that is an array
\* over the callback's parameters, the first element of the case.
hostEachArg(c, table) ==
    IF c.isArray /\ table = "spread"
    THEN IF c.items = <<>> THEN Undef ELSE Num(c.items[1])
    ELSE c

\* each applying the tester's transform twice.
callbackPath_mappedTwice(cb) ==
    IF cb = "each" THEN <<"suspend", "mapEffect", "mapEffect", "asVoid", "runPromise">>
    ELSE <<"suspend", "mapEffect", "asVoid", "runPromise">>

\* run(self) calling self() itself instead of handing it to Effect.suspend.
callbackPath_unsuspended(cb) ==
    IF cb = "run" THEN <<"mapEffect", "asVoid", "runPromise">>
    ELSE <<"suspend", "mapEffect", "asVoid", "runPromise">>

\* The property's runs made without the tester's transform.
callbackPath_propUnmapped(cb) ==
    IF cb = "prop" THEN <<"suspend", "asVoid", "runPromise">>
    ELSE <<"suspend", "mapEffect", "asVoid", "runPromise">>

\* What the callback given to the host does with the body: run(self) for the
\* base form, and the same pipe written out in each and in propFn.
callbackPath(cb) ==
    CASE cb = "run" -> <<"suspend", "mapEffect", "asVoid", "runPromise">>
      [] cb = "each" -> <<"suspend", "mapEffect", "asVoid", "runPromise">>
      [] cb = "prop" -> <<"suspend", "mapEffect", "asVoid", "runPromise">>

\* runPromise as a function of the Exit of the effect it runs.
settle(ex) ==
    IF isSuccess(ex) THEN Resolved
    ELSE IF isInterruptedOnly(ex.cause) THEN Rejected(InterruptedError)
    ELSE Rejected(thrown(prettyErrors(ex.cause)))

\* The host's report of a callback whose promise settled.
verdict(mode, state) ==
    IF mode = "failing"
    THEN IF state = "rejected" THEN "pass" ELSE "fail"
    ELSE IF state = "resolved" THEN "pass" ELSE "fail"

\* A callback that threw before it had a promise to return.
ThrownExit == [tag |-> "Thrown", cause |-> <<>>]
SyncThrow == [state |-> "thrown", value |-> <<"Error", "d1">>]

\* The body thunk throws when it is called. Under Effect.suspend the call is
\* made by the running effect and the exception is a defect of it; a callback
\* that calls the thunk itself throws synchronously.
thunkThrows(path) ==
    IF \E k \in 1..Len(path) : path[k] = "suspend"
    THEN [exit |-> ExitFailure(<<Die("d1")>>),
          promise |-> settle(ExitFailure(<<Die("d1")>>))]
    ELSE [exit |-> ThrownExit, promise |-> SyncThrow]

Reg(api, c, arg, cb) == [api |-> api, cond |-> c, arg |-> arg, callback |-> cb]
NewRun(k, arg, cb) ==
    [inst |-> k, arg |-> arg, path |-> callbackPath(cb), thunk |-> "unevaluated",
     exit |-> NoExit, promise |-> Pending]

InitModifiers ==
    /\ tester = "effect"
    /\ pc = "registered"
    /\ exit = NoExit
    /\ finalizers = <<>>
    /\ finLog = <<>>
    /\ errors = <<>>
    /\ i = 0
    /\ logged = <<>>
    /\ promise = Pending
    /\ hostTest = "registered"
    /\ IdleFlaky
    /\ IdleRegistrar
    /\ IdleNested
    /\ IdleAsserts
    /\ modifier \in Modifiers
    /\ condition \in IF member(modifier) \in {"skipIf", "ifCond"}
                    THEN Conditions ELSE {"undefined"}
    /\ cases \in IF member(modifier) = "each"
                THEN SeqsUpTo(CaseValues, MaxCases) ELSE {<<>>}
    /\ eachTable \in IF member(modifier) = "each"
                    THEN {"single", "spread"} ELSE {"none"}
    /\ regPc = "unregistered"
    /\ registered = <<>>
    /\ cur = 0
    /\ runs = <<>>
    /\ report = <<>>

ModOthersUnchanged ==
    /\ UNCHANGED <<bridgeVars, flakyVars, nestVars, assertVars, testScopeVars>>
    /\ UNCHANGED <<form, excludeTestServices, cache, building, buildRuns,
                   memoMap, constructed, scope, released, counts, hostPc, cpc,
                   got, thost, tread, twrote, tbefore>>

\* Registration re-binding the tester to its plain member.
Registers_rebinding(regs) ==
    /\ regPc = "unregistered"
    /\ registered' = regs
    /\ regPc' = "registered"
    /\ modifier' = "f"
    /\ UNCHANGED <<condition, cases, eachTable, cur, runs, report>>

\* A function of the tester makes its host registrations.
Registers(regs) ==
    /\ regPc = "unregistered"
    /\ registered' = regs
    /\ regPc' = "registered"
    /\ UNCHANGED <<modifier, condition, cases, eachTable, cur, runs, report>>

\* f: testFn(name, () => run(self), timeout)
TesterF ==
    /\ member(modifier) = "f"
    /\ Registers(<<Reg(hostCall("f"), "undefined", Undef, "run")>>)
    /\ ModOthersUnchanged

\* skip: testFn.skip(name, () => run(self), timeout)
TesterSkip ==
    /\ member(modifier) = "skip"
    /\ Registers(<<Reg(hostCall("skip"), "undefined", Undef, "run")>>)
    /\ ModOthersUnchanged

\* only: testFn.only(name, () => run(self), timeout)
TesterOnly ==
    /\ member(modifier) = "only"
    /\ Registers(<<Reg(hostCall("only"), "undefined", Undef, "run")>>)
    /\ ModOthersUnchanged

\* skipIf(condition): testFn.skipIf(condition)(name, () => run(self), timeout)
TesterSkipIf ==
    /\ member(modifier) = "skipIf"
    /\ Registers(<<Reg(hostCall("skipIf"), condition, Undef, "run")>>)
    /\ ModOthersUnchanged

\* ifCond(condition): testFn.if(condition)(name, () => run(self), timeout)
TesterIfCond ==
    /\ member(modifier) = "ifCond"
    /\ Registers(<<Reg(hostCall("ifCond"), condition, Undef, "run")>>)
    /\ ModOthersUnchanged

\* each(cases): testFn.each(cases)(name, (args) => runPromise(...), timeout);
\* the host registers one test per case, in the order of the cases.
TesterEach ==
    /\ member(modifier) = "each"
    /\ Registers([k \in 1..Len(cases) |->
                    Reg(hostCall("each"), "undefined", cases[k], "each")])
    /\ ModOthersUnchanged

\* failing: testFn.failing(name, () => run(self), timeout)
TesterFailing ==
    /\ member(modifier) = "failing"
    /\ Registers(<<Reg(hostCall("failing"), "undefined", Undef, "run")>>)
    /\ ModOthersUnchanged

\* propFn: testFn(name, async () => { await fc.assert(...) }, timeoutMs)
TesterPropFn ==
    /\ member(modifier) = "propFn"
    /\ Registers(<<Reg(hostCall("propFn"), "undefined", Undef, "prop")>>)
    /\ ModOthersUnchanged

\* The host comes to its next registration, in order: it reports a skipped
\* one without calling it, and calls the callback of any other, which starts
\* a run of the body.
HostNextRegistration ==
    /\ regPc = "registered"
    /\ cur = 0
    /\ Len(report) < Len(registered)
    /\ LET k == Len(report) + 1
           r == registered[k]
       IN  IF hostMode(r.api, r.cond) = "skip"
           THEN /\ report' = Append(report, "skipped")
                /\ UNCHANGED <<cur, runs>>
           ELSE /\ cur' = k
                /\ \E arg \in (IF r.callback = "prop" THEN Generated
                               ELSE IF r.callback = "each"
                               THEN {hostEachArg(r.arg, eachTable)}
                               ELSE {Undef}) :
                      runs' = Append(runs, NewRun(k, arg, r.callback))
                /\ UNCHANGED report
    /\ UNCHANGED <<modifier, condition, cases, eachTable, regPc, registered>>
    /\ ModOthersUnchanged

\* The body thunk is called and throws instead of returning an effect.
ModThunkThrows ==
    /\ cur # 0
    /\ runs[Len(runs)].exit = NoExit
    /\ LET threw == thunkThrows(runs[Len(runs)].path)
       IN  runs' = [runs EXCEPT ![Len(runs)] =
                      [@ EXCEPT !.thunk = "threw", !.exit = threw.exit,
                                !.promise = threw.promise]]
    /\ UNCHANGED <<modifier, condition, cases, eachTable, regPc, registered,
                   cur, report>>
    /\ ModOthersUnchanged

\* The thunk returns the body, the body terminates and runPromise settles the
\* run's promise.
ModBodyEnds ==
    /\ cur # 0
    /\ runs[Len(runs)].exit = NoExit
    /\ \E ex \in BodyExits :
          runs' = [runs EXCEPT ![Len(runs)] =
                     [@ EXCEPT !.thunk = "returned", !.exit = ex,
                               !.promise = settle(ex)]]
    /\ UNCHANGED <<modifier, condition, cases, eachTable, regPc, registered,
                   cur, report>>
    /\ ModOthersUnchanged

\* fc.assert(fc.asyncProperty(...)): fast-check calls the predicate again,
\* with the next generated tuple or with a shrunk one after a failure.
PropIterates ==
    /\ cur # 0
    /\ registered[cur].callback = "prop"
    /\ runs[Len(runs)].exit # NoExit
    /\ Len(runs) < MaxRuns
    /\ \E arg \in Generated :
          runs' = Append(runs, NewRun(cur, arg, "prop"))
    /\ UNCHANGED <<modifier, condition, cases, eachTable, regPc, registered,
                   cur, report>>
    /\ ModOthersUnchanged

\* The callback's promise settles and the host reports the registration: the
\* promise of a base or each callback is the run's; fc.assert throws when a
\* run of the predicate rejected and returns when none did.
HostReports ==
    /\ cur # 0
    /\ runs[Len(runs)].exit # NoExit
    /\ LET r == registered[cur]
           mine == {k \in 1..Len(runs) : runs[k].inst = cur}
           state == IF \E k \in mine : runs[k].promise.state # "resolved"
                    THEN "rejected" ELSE "resolved"
       IN  report' = Append(report, verdict(hostMode(r.api, r.cond), state))
    /\ cur' = 0
    /\ UNCHANGED <<modifier, condition, cases, eachTable, regPc, registered,
                   runs>>
    /\ ModOthersUnchanged

NextModifiers ==
    \/ TesterF
    \/ TesterSkip
    \/ TesterOnly
    \/ TesterSkipIf
    \/ TesterIfCond
    \/ TesterEach
    \/ TesterFailing
    \/ TesterPropFn
    \/ HostNextRegistration
    \/ ModThunkThrows
    \/ ModBodyEnds
    \/ PropIterates
    \/ HostReports

SpecModifiers == InitModifiers /\ [][NextModifiers]_vars

\* --------------------------------------------------------------------------
\* Tester members: properties of SpecModifiers
\* --------------------------------------------------------------------------
\* The run of the body made for registration k (each and base forms: one).
RunOf(k) == runs[CHOOSE j \in 1..Len(runs) : runs[j].inst = k]
HasRun(k) == \E j \in 1..Len(runs) : runs[j].inst = k

\* C17 as stated: for every ordered case list of length n, exactly n test
\* instances are registered, in case order; the body of the i-th instance
\* receives exactly the i-th case value; and the outcome of one instance
\* depends on its own run only.
C17_EachCaseReachesBody ==
    (member(modifier) = "each" /\ regPc = "registered") =>
        /\ Len(registered) = Len(cases)
        /\ \A k \in 1..Len(registered) : registered[k].arg = cases[k]
        /\ \A j \in 1..Len(runs) : runs[j].arg = cases[runs[j].inst]
        /\ \A k \in 1..Len(report) :
              /\ HasRun(k)
              /\ report[k] = "pass" <=> isSuccess(RunOf(k).exit)

\* C18: tester.prop registers exactly one host test; every run of the body
\* goes the way of a base registration (suspend, the transform once, the
\* Outcome Bridge) and settles from its own Exit alone; the host test fails
\* if a run rejected and passes if all resolved.
C18_PropRunsLikeBase ==
    (member(modifier) = "propFn" /\ regPc = "registered") =>
        /\ Len(registered) = 1
        /\ registered[1].api = hostCall("f")
        /\ \A j \in 1..Len(runs) :
              /\ runs[j].path = callbackPath("run")
              /\ runs[j].arg \in Generated
              /\ runs[j].exit # NoExit => runs[j].promise = settle(runs[j].exit)
        /\ report # <<>> =>
              /\ runs # <<>>
              /\ report[1] = "fail" <=>
                    \E j \in 1..Len(runs) : runs[j].promise.state = "rejected"
              /\ report[1] = "pass" <=>
                    \A j \in 1..Len(runs) : runs[j].promise.state = "resolved"

\* A property whose first run resolved and whose second rejected failed.
C18_Witness ==
    /\ modifier = "prop"
    /\ Len(runs) = 2
    /\ runs[1].promise.state = "resolved"
    /\ runs[2].promise.state = "rejected"
    /\ report = <<"fail">>

\* C19: a test registered through failing or fails has its body executed and
\* is reported as passing exactly when the run ends abnormally (typed
\* failure, defect or interruption) and as failing when the body succeeds;
\* the two members make the same registration.
C19_FailingInvertsOutcome ==
    (modifier \in {"failing", "fails"} /\ regPc = "registered") =>
        /\ registered = <<Reg("test.failing", "undefined", Undef, "run")>>
        /\ report # <<>> =>
              /\ HasRun(1)
              /\ RunOf(1).exit # NoExit
              /\ report[1] = "pass" <=> ~isSuccess(RunOf(1).exit)
              /\ report[1] = "fail" <=> isSuccess(RunOf(1).exit)

\* A test registered through fails ended by interruption and was reported as
\* passing.
C19_Witness ==
    /\ modifier = "fails"
    /\ report = <<"pass">>
    /\ RunOf(1).exit = ExitFailure(<<Interrupt>>)

\* C20: a test registered with skipIf(c) executes its body exactly when c is
\* falsy, one registered with if(c) or runIf(c) exactly when c is truthy; if
\* and runIf make the same registration.
C20_ConditionalRegistration ==
    (modifier \in {"skipIf", "if", "runIf"} /\ regPc = "registered") =>
        LET runsBody == IF modifier = "skipIf" THEN ~truthy(condition)
                        ELSE truthy(condition)
        IN  /\ registered[1].cond = condition
            /\ modifier \in {"if", "runIf"} =>
                  registered = <<Reg("test.if", condition, Undef, "run")>>
            /\ runs # <<>> => runsBody
            /\ report # <<>> => (runs # <<>> <=> runsBody)
            /\ report # <<>> => (report[1] = "skipped" <=> ~runsBody)

\* runIf with a truthy string ran its body; skipIf with 0 would too.
C20_Witness ==
    /\ modifier = "runIf"
    /\ condition = "'CI'"
    /\ report = <<"pass">>
    /\ HasRun(1)

\* The host has called the callback of registration k.
Invoked(k) == cur = k \/ (k <= Len(report) /\ report[k] # "skipped")

\* Occurrences of a step in the pipe a callback runs.
Occurrences(path, step) == Cardinality({j \in 1..Len(path) : path[j] = step})

\* C23: for every member but prop, one call by the host of a registered
\* callback makes exactly one run of the body: the thunk is handed to
\* Effect.suspend once, the tester's transform is applied once and one promise
\* comes out of runPromise, whatever the run ends with.
C23_NoImplicitRetry ==
    (member(modifier) # "propFn" /\ regPc = "registered") =>
        /\ \A k \in 1..Len(registered) :
              Cardinality({j \in 1..Len(runs) : runs[j].inst = k})
                  = IF Invoked(k) THEN 1 ELSE 0
        /\ \A j \in 1..Len(runs) :
              /\ Occurrences(runs[j].path, "suspend") = 1
              /\ Occurrences(runs[j].path, "mapEffect") = 1
              /\ Occurrences(runs[j].path, "runPromise") = 1
              /\ runs[j].promise.state \in {"pending", "resolved", "rejected"}

\* Two cases registered through each were both called: one run each, the
\* first ended with a typed failure and was not run again.
C23_Witness ==
    /\ modifier = "each"
    /\ Len(report) = 2
    /\ Len(runs) = 2
    /\ runs[1].exit = ExitFailure(<<Fail("e1")>>)
    /\ runs[2].exit = ExitSuccess

\* C24: registering through any member evaluates no body thunk: a thunk is
\* evaluated only in a run the host started by calling the callback, and a
\* thunk that throws rejects the promise of its run instead of throwing out of
\* the callback.
C24_DeferredBodyEvaluation ==
    /\ \A j \in 1..Len(runs) : regPc = "registered" /\ Invoked(runs[j].inst)
    /\ \A j \in 1..Len(runs) :
          runs[j].thunk = "threw" =>
              /\ runs[j].promise = Rejected(PrettyError("d1"))
              /\ runs[j].exit = ExitFailure(<<Die("d1")>>)

\* The thunk of a test registered through only threw and the host was given
\* a rejected promise.
C24_Witness ==
    /\ modifier = "only"
    /\ Len(runs) = 1
    /\ runs[1].thunk = "threw"
    /\ runs[1].promise.state = "rejected"
    /\ report = <<"fail">>

C3_ConstructedOnce ==
    /\ buildRuns <= 1
    /\ \A l \in LeafNames : constructed[l] <= 1
    /\ \A c \in Consumers : cpc[c] \in {"waiting", "got"} => buildRuns = 1
    /\ \A c1, c2 \in Consumers :
          (got[c1] # NoResult /\ got[c2] # NoResult) => got[c1] = got[c2]

\* The hook timed out on the host, a test forced the construction while it was
\* still running, and every consumer ended up with the one runtime.
C3_Witness ==
    /\ buildRuns = 1
    /\ \A c \in Consumers : got[c].tag = "runtime"
    /\ \E t \in Tests : thost[t] = "timedout"
    /\ constructed["Counter"] = 1

\* C4: all tests of the group are provided the same service instances: what
\* test A did to the shared Counter is what a test B that runs after A reads.
C4_SharedInstances ==
    /\ \A a, b \in Tests :
          (got[a].tag = "runtime" /\ got[b].tag = "runtime") =>
              got[a].inst = got[b].inst
    /\ \A b \in Tests : \A a \in tbefore[b] :
          twrote[a] > 0 => tread[b] >= twrote[a]

\* Test 1 incremented the Counter and finished; test 2 then read 1.
C4_Witness ==
    /\ 1 \in tbefore[2]
    /\ twrote[1] = 1
    /\ tread[2] = 1
    /\ cpc[2] = "settled"

\* C10 as stated: the construction has completed before the first test body
\* starts, the registrar's Scope is closed only after the last test of the
\* group has finished, and no test body executes while the Scope is closed.
C10_BuiltBeforeClosedAfter ==
    /\ \A t \in Tests :
          cpc[t] = "body" => (cache.status = "done" /\ cache.result.tag = "runtime")
    /\ scope.closed => \A t \in Tests : thost[t] # "awaited"
    /\ \A t \in Tests : cpc[t] = "body" => ~scope.closed

\* C11: if the construction of the graph fails, the promise of the beforeAll
\* hook rejects, and no body of a test registered through the registrar's
\* testers is ever executed (whether or not the host still invokes the tests).
C11_BuildFailureFailsSetup ==
    cache.result = BuildDied =>
        /\ cpc[0] = "settled" => hookPromise(cpc[0], got[0]).state = "rejected"
        /\ \A c \in Consumers : got[c] \in {NoResult, BuildDied}
        /\ \A t \in Tests : cpc[t] # "body" /\ twrote[t] = 0 /\ tbefore[t] = {}

\* The construction died, the hook's promise rejected, the host invoked a test
\* all the same and the test settled without its body.
C11_Witness ==
    /\ cache.result = BuildDied
    /\ hookPromise(cpc[0], got[0]).state = "rejected"
    /\ \E t \in Tests : thost[t] = "finished" /\ cpc[t] = "settled"

\* C27: a construction that failed is kept by the cached construction: it
\* was started once, every consumer that has forced it since has the same
\* defect, and once the afterAll hook has run the Scope is closed and every
\* service constructed before the failure has been released.
C27_FailedConstructionMemoized ==
    cache.result = BuildDied =>
        /\ buildRuns = 1
        /\ \A c \in Consumers : cpc[c] \in {"got", "settled"} => got[c] = BuildDied
        /\ \A t \in Tests : cpc[t] # "body"
        /\ hostPc = "done" =>
              /\ scope = [closed |-> TRUE, finalizers |-> <<>>]
              /\ \A l \in LeafNames :
                    constructed[l] > 0 =>
                        Cardinality({k \in 1..Len(released) : released[k] = l}) = 1

\* TestEnv was built and the Counter's construction failed; both tests were
\* run and failed with the defect, and afterAll released TestEnv.
C27_Witness ==
    /\ cache.result = BuildDied
    /\ constructed = [l \in LeafNames |-> IF l = "TestEnv" THEN 1 ELSE 0]
    /\ \A t \in Tests : thost[t] = "finished" /\ got[t] = BuildDied
    /\ hostPc = "done"
    /\ released = <<"TestEnv">>

\* C25: in a layer group the finalizers a test body registered in its own
\* scope have run by the time the host starts the next test, and the
\* finalizers of the shared graph run only once the afterAll hook has closed
\* the registrar's Scope, never when a test's scope closes.
C25_TestScopeIndependentOfSharedScope ==
    /\ \A t, u \in Tests : (u < t /\ thost[t] # "notrun") => tfins[u] = 0
    /\ released # <<>> => hostPc = "done"

\* --------------------------------------------------------------------------
\* flakyTest: properties of SpecFlaky
\* --------------------------------------------------------------------------
\* The elapsed-time test of the schedule fails at the current clock.
TimeoutElapsed == schedule.elapsed # None /\ now - schedule.elapsed > timeout

\* C6 as stated: a wrapped effect that fails on every attempt, under a timeout
\* that never elapses, is executed at most 10 times in total.
C6_AtMostTenExecutions ==
    (timeout > MaxTime /\ succeedAt > Recurs + 1) => attempts <= 10

\* C6 amended: such an effect is executed at most 11 times in total, the first
\* execution and the 10 retries Schedule.recurs(10) allows.
C6_AtMostElevenExecutions ==
    (timeout > MaxTime /\ succeedAt > Recurs + 1) => attempts <= 11

\* The 11th execution has failed and flakyTest has given up.
C6_Witness ==
    /\ timeout > MaxTime
    /\ succeedAt > Recurs + 1
    /\ fpc = "done"
    /\ attempts = 11
    /\ lastAttempt = "failed"

\* C7: if the wrapped effect fails on attempts 1..k-1 and succeeds on attempt
\* k, with k within the attempt budget and the timeout not elapsed, flakyTest
\* succeeds with the value of attempt k after exactly k executions (k = 1: no
\* retry).
C7_SucceedsOnKthAttempt ==
    (/\ fpc = "done"
     /\ lastAttempt # "interrupted"
     /\ succeedAt <= 11
     /\ ~TimeoutElapsed) =>
        /\ flakyExit.tag = "Success"
        /\ flakyExit.value = succeedAt
        /\ attempts = succeedAt

\* Two failures, then the third execution succeeded.
C7_Witness ==
    /\ fpc = "done"
    /\ succeedAt = 3
    /\ attempts = 3
    /\ flakyExit.tag = "Success"
    /\ ~TimeoutElapsed

C16_DefectRetriedLikeFailure ==
    /\ fpc = "ready" => schedule.recurs = attempts
    /\ (fpc = "done" /\ lastAttempt = "failed") =>
          /\ schedule.recurs = attempts
          /\ schedule.recurs > Recurs \/ TimeoutElapsed
    /\ (fpc = "done" /\ lastAttempt = "succeeded") =>
          /\ flakyExit.tag = "Success"
          /\ flakyExit.value = ValueOf(attempts)
    /\ defects <= attempts

\* self died on its first two executions and succeeded on the third: the
\* test passed.
C16_Witness ==
    /\ defects = 2
    /\ attempts = 3
    /\ flakyExit.tag = "Success"
    /\ pc = "settled"
    /\ promise = Resolved

\* C9: flakyTest never ends in a typed failure; when the budget is exhausted
\* with the wrapped effect still failing the outcome is a defect, and the
\* Outcome Bridge reports the test as failed, never as passed.
C9_ExhaustionIsDefect ==
    /\ fpc = "done" =>
          \A k \in 1..Len(flakyExit.cause) : flakyExit.cause[k].kind # "Fail"
    /\ (fpc = "done" /\ lastAttempt = "failed") =>
          /\ flakyExit.tag = "Failure"
          /\ Len(flakyExit.cause) = 1
          /\ flakyExit.cause[1].kind = "Die"
          /\ promise.state # "resolved"
    /\ (pc = "settled" /\ lastAttempt = "failed") => promise.state = "rejected"

\* The test whose flakyTest ran out of attempts has been reported as failed.
C9_Witness ==
    /\ pc = "settled"
    /\ lastAttempt = "failed"
    /\ attempts = 11
    /\ promise.state = "rejected"

\* C29: when an execution of self is interrupted, flakyTest is over with that
\* interruption as its Exit (not a defect, not a success), and no execution
\* of self is started afterwards.
C29_InterruptionNotRetried ==
    [][lastAttempt' = "interrupted" =>
          /\ fpc' = "done"
          /\ flakyExit' = ExitFailure(<<Interrupt>>)
          /\ lastAttempt = "interrupted" => attempts' = attempts]_vars

\* The second execution of self was interrupted after the first had failed
\* and been retried; flakyTest ended there and the test was rejected with
\* the interruption error.
C29_Witness ==
    /\ lastAttempt = "interrupted"
    /\ attempts = 2
    /\ succeedAt > 2
    /\ flakyExit = ExitFailure(<<Interrupt>>)
    /\ promise = Rejected(InterruptedError)

\* --------------------------------------------------------------------------
\* Outcome Bridge and auto-scoping: properties of SpecBridge
\* --------------------------------------------------------------------------
\* The first leaf of a cause that is a typed failure or a defect.
FirstErrorLeaf(cause) ==
    cause[CHOOSE k \in 1..Len(cause) :
             /\ cause[k].kind # "Interrupt"
             /\ \A j \in 1..(k - 1) : cause[j].kind = "Interrupt"]

HasError(cause) == \E k \in 1..Len(cause) : cause[k].kind # "Interrupt"

\* C1: the promise of run(() => e) resolves if and only if e's Exit is a success;
\* when e fails with a typed error err (or any cause holding an error) the
\* promise rejects with the rendering of the first error of the cause.
C1_OutcomeBridge ==
    /\ promise.state = "resolved" => (pc = "settled" /\ isSuccess(exit))
    /\ pc = "settled" =>
          /\ promise.state # "pending"
          /\ isSuccess(exit) => promise = Resolved
          /\ (~isSuccess(exit) /\ HasError(exit.cause)) =>
                /\ promise.state = "rejected"
                /\ promise.value = <<"PrettyError", FirstErrorLeaf(exit.cause).err>>
          /\ \A e \in {"e1", "e2"} :
                exit = ExitFailure(<<Fail(e)>>) =>
                    promise = Rejected(<<"PrettyError", e>>)

\* A run that failed with two typed errors has rejected with the first one.
C1_Witness ==
    /\ pc = "settled"
    /\ exit = ExitFailure(<<Fail("e2"), Fail("e1")>>)
    /\ promise = Rejected(<<"PrettyError", "e2">>)

\* C2: when the cause of e's failure holds interruption signals only, the
\* promise rejects with the generic error 'All fibers interrupted without
\* errors.' and never resolves.
C2_InterruptedOnly ==
    (exit.tag = "Failure" /\ ~HasError(exit.cause)) =>
        /\ promise.state # "resolved"
        /\ pc = "settled" =>
              promise = Rejected(<<"Error", "All fibers interrupted without errors.">>)

\* A body that was interrupted, and nothing else, has been reported.
C2_Witness ==
    /\ pc = "settled"
    /\ exit = ExitFailure(<<Interrupt>>)
    /\ promise.state = "rejected"

\* C5: through an auto-scoping tester, every finalizer the body registered has
\* run, in reverse registration order, before the promise settles, whatever
\* the body's outcome.
C5_FinalizersBeforeSettle ==
    (BodyHasScope(tester) /\ promise.state # "pending") =>
        /\ Len(finLog) = Len(finalizers)
        /\ \A k \in 1..Len(finalizers) :
              finLog[k] = finalizers[Len(finalizers) - k + 1]

\* An interrupted body that registered two finalizers has been reported.
C5_Witness ==
    /\ pc = "settled"
    /\ tester = "scoped"
    /\ Len(finalizers) >= 2
    /\ finLog[1] = 2
    /\ exit = ExitFailure(<<Interrupt>>)

\* C14 as stated: when the host's timeout fires while the test's effect is
\* still executing, the effect is interrupted and the finalizers of its scope
\* run: after the host has reported the test the body takes no further step
\* of its own, and the only way it ends is by that interruption.
C14_HostTimeoutInterrupts ==
    [][(hostTest = "timedout" /\ pc = "body") =>
          /\ finalizers' = finalizers
          /\ pc' # "body" =>
                /\ exit'.tag = "Failure"
                /\ \E k \in 1..Len(exit'.cause) : exit'.cause[k].kind = "Interrupt"]_vars

includes(hay, needle) ==
    \E k \in 0..(Len(hay) - Len(needle)) :
        \A j \in 1..Len(needle) : hay[k + j] = needle[j]

\* new Error(message), and a thrown value that is not an Error (a string).
JsError(m) == [isError |-> TRUE, message |-> m]
JsString(m) == [isError |-> FALSE, message |-> m]

SyncSentinel == JsError(<<"Expected", "function", "to", "throw">>)
AsyncSentinel == JsError(<<"Expected", "async", "function", "to", "throw">>)

Messages == {<<>>, <<"boom">>, <<"async", "boom">>, <<"to", "throw">>}
ThrownValues == {JsError(m) : m \in Messages \ {<<>>}} \cup {JsString(<<"boom">>)}

\* What thunk does when it is called: it returns, or it throws a value.
ThunkOutcomes ==
    {[kind |-> "returns"]} \cup {[kind |-> "throws", value |-> v] : v \in ThrownValues}

\* The function arguments tried: each is (u) => void and rejects u by throwing.
\*   "any"              (u) => {}
\*   "instanceOfError"  (e) => { expect(e).toBeInstanceOf(Error) }
\*   "messageBoom"      (e) => { expect(e.message).toInclude("boom") }
Predicates == {"any", "instanceOfError", "messageBoom"}

\* The second argument: absent, an Error, or a function.
ErrorArgs ==
    {[form |-> "absent"]}
        \cup {[form |-> "Error", message |-> m] : m \in Messages}
        \cup {[form |-> "function", pred |-> f] : f \in Predicates}

accepts(f, u) ==
    CASE f = "any" -> TRUE
      [] f = "instanceOfError" -> u.isError
      [] f = "messageBoom" -> u.isError /\ includes(u.message, <<"boom">>)

\* expect(thunk).toThrow(): passes exactly when thunk throws.
toThrow(thunk) == thunk.kind = "throws"

\* expect(thunk).toThrow(message): thunk throws and the message of what it
\* threw includes the given message.
toThrowMessage(thunk, m) ==
    /\ thunk.kind = "throws"
    /\ includes(thunk.value.message, m)

\* What the catch clause of a try holding "thunk(); throw sentinel" receives.
caught(thunk, sentinel) ==
    IF thunk.kind = "throws"
    THEN [value |-> thunk.value, from |-> "thunk"]
    ELSE [value |-> sentinel, from |-> "sentinel"]

\* throws(thunk, error): how the call ends and what the function argument was
\* applied to.
throws(thunk, error) ==
    IF error.form = "function"
    THEN LET e == caught(thunk, SyncSentinel)
         IN  [outcome |-> IF accepts(error.pred, e.value) THEN "returned" ELSE "threw",
              applied |-> <<e>>]
    ELSE IF error.form = "Error"
    THEN [outcome |-> IF toThrowMessage(thunk, error.message) THEN "returned" ELSE "threw",
          applied |-> <<>>]
    ELSE [outcome |-> IF toThrow(thunk) THEN "returned" ELSE "threw",
          applied |-> <<>>]

\* throwsAsync(thunk, error): how the returned promise settles and what the
\* function argument was applied to.
throwsAsync(thunk, error) ==
    LET e == caught(thunk, AsyncSentinel)
    IN  IF error.form = "function"
        THEN [outcome |-> IF accepts(error.pred, e.value) THEN "resolved" ELSE "rejected",
              applied |-> <<e>>]
        ELSE [outcome |-> IF error.form = "Error" /\ e.value.isError
                             /\ ~includes(e.value.message, error.message)
                          THEN "rejected" ELSE "resolved",
              applied |-> <<>>]

InitAsserts ==
    /\ IdleFlaky
    /\ IdleNested
    /\ IdleModifiers
    /\ IdleRegistrar
    /\ tester = "effect"
    /\ pc = "registered"
    /\ exit = NoExit
    /\ finalizers = <<>>
    /\ finLog = <<>>
    /\ errors = <<>>
    /\ i = 0
    /\ logged = <<>>
    /\ promise = Pending
    /\ hostTest = "registered"
    /\ aThunk \in ThunkOutcomes
    /\ aError \in ErrorArgs
    /\ aCall = "none"
    /\ aOutcome = "none"
    /\ aApplied = <<>>

AssertOthersUnchanged ==
    /\ UNCHANGED <<bridgeVars, flakyVars, nestVars, modVars, testScopeVars>>
    /\ UNCHANGED <<form, excludeTestServices, cache, building, buildRuns,
                   memoMap, constructed, scope, released, counts, hostPc, cpc,
                   got, thost, tread, twrote, tbefore>>

\* A test calls throws(thunk, error).
CallThrows ==
    /\ aCall = "none"
    /\ aCall' = "throws"
    /\ aOutcome' = throws(aThunk, aError).outcome
    /\ aApplied' = throws(aThunk, aError).applied
    /\ UNCHANGED <<aThunk, aError>>
    /\ AssertOthersUnchanged

\* A test awaits throwsAsync(thunk, error).
CallThrowsAsync ==
    /\ aCall = "none"
    /\ aCall' = "throwsAsync"
    /\ aOutcome' = throwsAsync(aThunk, aError).outcome
    /\ aApplied' = throwsAsync(aThunk, aError).applied
    /\ UNCHANGED <<aThunk, aError>>
    /\ AssertOthersUnchanged

NextAsserts ==
    \/ CallThrows
    \/ CallThrowsAsync

SpecAsserts == InitAsserts /\ [][NextAsserts]_vars

\* --------------------------------------------------------------------------
\* Assertion helpers: properties of SpecAsserts
\* --------------------------------------------------------------------------
\* The expectation the second argument states about what thunk threw.
ExpectationMet(thunk, error) ==
    CASE error.form = "absent" -> TRUE
      [] error.form = "Error" -> includes(thunk.value.message, error.message)
      [] error.form = "function" -> accepts(error.pred, thunk.value)

\* C21: the promise of throwsAsync(thunk, error?) rejects whenever thunk
\* resolves without throwing, whatever the form of the second argument, and
\* resolves when thunk rejects and the expectation, if any, is met.
C21_ThrowsAsyncRejectsUnlessThrown ==
    aCall = "throwsAsync" =>
        /\ aThunk.kind = "returns" => aOutcome = "rejected"
        /\ (aThunk.kind = "throws" /\ ExpectationMet(aThunk, aError))
               => aOutcome = "resolved"

\* C22: throws(thunk, error?) throws whenever thunk returns normally, whatever
\* the form of the second argument, and a function argument is only ever
\* applied to a value that thunk itself threw.
C22_ThrowsFailsUnlessThrown ==
    aCall = "throws" =>
        /\ aThunk.kind = "returns" => aOutcome = "threw"
        /\ \A k \in 1..Len(aApplied) : aApplied[k].from = "thunk"

====
